---- MODULE Spec2Model ----
(***************************************************************************)
(* Query interpretation and retrieval engine of the expert platform:       *)
(* criteria extraction (AI-backed generation with deterministic fallback), *)
(* topic normalisation, the store lookups and the tool / HTTP handlers     *)
(* that wrap them.                                                         *)
(*                                                                         *)
(* A JavaScript string is modelled as the sequence of its characters, each *)
(* a one-character TLA+ string, so that toLowerCase, includes, split,      *)
(* replace and trim are computed character by character as the code does.  *)
(* An optional string argument is <<>> when absent and <<s>> when present.  *)
(***************************************************************************)
EXTENDS Integers, Sequences, FiniteSets, TLC

(***************************************************************************)
(* String primitives of the JavaScript runtime used by the code            *)
(***************************************************************************)
UpperLetters ==
    <<"A","B","C","D","E","F","G","H","I","J","K","L","M",
      "N","O","P","Q","R","S","T","U","V","W","X","Y","Z">>

LowerLetters ==
    <<"a","b","c","d","e","f","g","h","i","j","k","l","m",
      "n","o","p","q","r","s","t","u","v","w","x","y","z">>

Digits == {"0","1","2","3","4","5","6","7","8","9"}

Range(s) == {s[i] : i \in 1..Len(s)}

Letters == Range(UpperLetters) \cup Range(LowerLetters)

\* \w of a regular expression
WordChars == Letters \cup Digits \cup {"_"}

\* \s of a regular expression (the whitespace that occurs in requests)
Whitespace == {" ", "\t", "\n", "\r"}

\* the lower-case letter of each upper-case letter, and the converse
LowerCase ==
    [c \in Range(UpperLetters) |->
        LowerLetters[CHOOSE i \in 1..Len(UpperLetters) : UpperLetters[i] = c]]

UpperCase ==
    [c \in Range(LowerLetters) |->
        UpperLetters[CHOOSE i \in 1..Len(LowerLetters) : LowerLetters[i] = c]]

LowerOf(c) == IF c \in DOMAIN LowerCase THEN LowerCase[c] ELSE c

UpperOf(c) == IF c \in DOMAIN UpperCase THEN UpperCase[c] ELSE c

toLowerCase(s) == [i \in 1..Len(s) |-> LowerOf(s[i])]

\* s.includes(sub)
includes(s, sub) ==
    \E i \in 0..(Len(s) - Len(sub)) : SubSeq(s, i + 1, i + Len(sub)) = sub

\* s.match(/\b(a|b|...)\b/) for alternatives that begin and end with a word
\* character: an occurrence with no word character on either side
matchesWord(s, alts) ==
    \E k \in 1..Len(alts) :
        \E i \in 0..(Len(s) - Len(alts[k])) :
            /\ SubSeq(s, i + 1, i + Len(alts[k])) = alts[k]
            /\ (i = 0 \/ s[i] \notin WordChars)
            /\ (i + Len(alts[k]) = Len(s) \/ s[i + Len(alts[k]) + 1] \notin WordChars)

\* s.split(/[seps]+/): the pieces between maximal runs of separators; a
\* separator at either end of s leaves an empty piece there
split(s, seps) ==
    LET n == Len(s)
        starts == {i \in 1..n : s[i] \notin seps /\ (i = 1 \/ s[i - 1] \in seps)}
        ends == {i \in 1..n : s[i] \notin seps /\ (i = n \/ s[i + 1] \in seps)}
        before(S, i) == Cardinality({j \in S : j <= i})
        pieces == [k \in 1..Cardinality(starts) |->
                      SubSeq(s, CHOOSE i \in starts : before(starts, i) = k,
                                CHOOSE i \in ends : before(ends, i) = k)]
    IN  IF n = 0 THEN << <<>> >>
        ELSE (IF s[1] \in seps THEN << <<>> >> ELSE <<>>)
             \o pieces
             \o (IF s[n] \in seps THEN << <<>> >> ELSE <<>>)

\* list.includes(x)
listIncludes(list, x) == \E i \in 1..Len(list) : list[i] = x

\* list.join(sep)
RECURSIVE join(_, _)
join(list, sep) ==
    IF Len(list) = 0 THEN <<>>
    ELSE IF Len(list) = 1 THEN list[1]
    ELSE list[1] \o sep \o join(Tail(list), sep)

\* s.trim()
RECURSIVE trimStart(_)
trimStart(s) ==
    IF Len(s) > 0 /\ s[1] \in Whitespace THEN trimStart(Tail(s)) ELSE s

RECURSIVE trimEnd(_)
trimEnd(s) ==
    IF Len(s) > 0 /\ s[Len(s)] \in Whitespace
    THEN trimEnd(SubSeq(s, 1, Len(s) - 1)) ELSE s

trim(s) == trimEnd(trimStart(s))

\* `if (x)` on an optional string: present and not empty
Truthy(opt) == Len(opt) = 1 /\ Len(opt[1]) > 0

(***************************************************************************)
(* JavaScript values as they come out of JSON.parse                        *)
(***************************************************************************)
Undefined == [t |-> "undefined"]

Arr(xs) == [t |-> "array", v |-> xs]

Str(s) == [t |-> "string", v |-> s]

(***************************************************************************)
(* Literal tables of the deterministic fallback                            *)
(***************************************************************************)
Big5Phrases ==
    << <<"b","i","g"," ","5">>,
    <<"e","x","e","c","u","t","i","v","e"," ","s","e","a","r","c","h"," ","f","i","r","m">> >>

Big5Companies ==
    << <<"K","o","r","n"," ","F","e","r","r","y">>,
    <<"R","u","s","s","e","l","l"," ","R","e","y","n","o","l","d","s">>,
    <<"H","e","i","d","r","i","c","k"," ","&"," ","S","t","r","u","g","g","l","e","s">>,
    <<"S","p","e","n","c","e","r"," ","S","t","u","a","r","t">>,
    <<"E","g","o","n"," ","Z","e","h","n","d","e","r">> >>

Big5Roles ==
    << <<"P","a","r","t","n","e","r">>,
    <<"P","r","i","n","c","i","p","a","l">>,
    <<"D","i","r","e","c","t","o","r">>,
    <<"V","P">>,
    <<"E","x","e","c","u","t","i","v","e"," ","R","e","c","r","u","i","t","e","r">>,
    <<"M","a","n","a","g","i","n","g"," ","D","i","r","e","c","t","o","r">> >>

ConsultingPattern ==
    << <<"m","c","k","i","n","s","e","y">>,
    <<"b","a","i","n">>,
    <<"b","c","g">>,
    <<"d","e","l","o","i","t","t","e">>,
    <<"p","w","c">>,
    <<"a","c","c","e","n","t","u","r","e">> >>

ConsultingFirms ==
    << [keys |-> << <<"m","c","k","i","n","s","e","y">> >>,
       names |-> << <<"M","c","K","i","n","s","e","y">>, <<"M","c","K","i","n","s","e","y"," ","&"," ","C","o","m","p","a","n","y">> >>],
     [keys |-> << <<"b","a","i","n">> >>,
       names |-> << <<"B","a","i","n">>, <<"B","a","i","n"," ","&"," ","C","o","m","p","a","n","y">> >>],
     [keys |-> << <<"b","c","g">> >>,
       names |-> << <<"B","C","G">>, <<"B","o","s","t","o","n"," ","C","o","n","s","u","l","t","i","n","g"," ","G","r","o","u","p">> >>],
     [keys |-> << <<"d","e","l","o","i","t","t","e">> >>,
       names |-> << <<"D","e","l","o","i","t","t","e">> >>],
     [keys |-> << <<"p","w","c">> >>,
       names |-> << <<"P","w","C">>, <<"P","r","i","c","e","w","a","t","e","r","h","o","u","s","e","C","o","o","p","e","r","s">> >>],
     [keys |-> << <<"a","c","c","e","n","t","u","r","e">> >>,
       names |-> << <<"A","c","c","e","n","t","u","r","e">> >>] >>

ConsultingWord ==
    <<"c","o","n","s","u","l","t","i","n","g">>

ConsultingDefault ==
    << <<"M","c","K","i","n","s","e","y">>,
    <<"B","a","i","n">>,
    <<"B","C","G">>,
    <<"D","e","l","o","i","t","t","e">>,
    <<"P","w","C">> >>

ConsultingRoles ==
    << <<"P","a","r","t","n","e","r">>,
    <<"P","r","i","n","c","i","p","a","l">>,
    <<"D","i","r","e","c","t","o","r">>,
    <<"V","P">>,
    <<"M","a","n","a","g","e","r">>,
    <<"C","o","n","s","u","l","t","a","n","t">> >>

ResellerPattern ==
    << <<"c","d","w">>,
    <<"s","h","i">> >>

ResellerPhrase ==
    <<"i","n","s","i","g","h","t"," ","e","n","t","e","r","p","r","i","s","e","s">>

ResellerFirms ==
    << [keys |-> << <<"c","d","w">> >>,
       names |-> << <<"C","D","W">> >>],
     [keys |-> << <<"s","h","i">> >>,
       names |-> << <<"S","H","I">>, <<"S","H","I"," ","I","n","t","e","r","n","a","t","i","o","n","a","l">> >>],
     [keys |-> << <<"i","n","s","i","g","h","t">> >>,
       names |-> << <<"I","n","s","i","g","h","t">>, <<"I","n","s","i","g","h","t"," ","E","n","t","e","r","p","r","i","s","e","s">> >>] >>

ResellerRoles ==
    << <<"V","P">>,
    <<"D","i","r","e","c","t","o","r">>,
    <<"M","a","n","a","g","e","r">>,
    <<"S","a","l","e","s">>,
    <<"A","c","c","o","u","n","t">>,
    <<"S","o","l","u","t","i","o","n","s">> >>

FintechPattern ==
    << <<"s","t","r","i","p","e">>,
    <<"s","q","u","a","r","e">>,
    <<"p","a","y","p","a","l">>,
    <<"p","l","a","i","d">>,
    <<"c","o","i","n","b","a","s","e">> >>

FintechWord ==
    <<"f","i","n","t","e","c","h">>

FintechFirms ==
    << [keys |-> << <<"s","t","r","i","p","e">> >>,
       names |-> << <<"S","t","r","i","p","e">> >>],
     [keys |-> << <<"s","q","u","a","r","e">> >>,
       names |-> << <<"S","q","u","a","r","e">>, <<"B","l","o","c","k">> >>],
     [keys |-> << <<"p","a","y","p","a","l">> >>,
       names |-> << <<"P","a","y","P","a","l">> >>],
     [keys |-> << <<"p","l","a","i","d">> >>,
       names |-> << <<"P","l","a","i","d">> >>],
     [keys |-> << <<"c","o","i","n","b","a","s","e">> >>,
       names |-> << <<"C","o","i","n","b","a","s","e">> >>] >>

FintechRoles ==
    << <<"V","P">>,
    <<"D","i","r","e","c","t","o","r">>,
    <<"H","e","a","d">>,
    <<"L","e","a","d">>,
    <<"S","e","n","i","o","r">>,
    <<"P","r","o","d","u","c","t">>,
    <<"E","n","g","i","n","e","e","r","i","n","g">> >>

BigTechPattern ==
    << <<"g","o","o","g","l","e">>,
    <<"m","i","c","r","o","s","o","f","t">>,
    <<"m","e","t","a">>,
    <<"a","m","a","z","o","n">>,
    <<"a","p","p","l","e">>,
    <<"n","e","t","f","l","i","x">> >>

BigTechFirms ==
    << [keys |-> << <<"g","o","o","g","l","e">> >>,
       names |-> << <<"G","o","o","g","l","e">>, <<"A","l","p","h","a","b","e","t">> >>],
     [keys |-> << <<"m","i","c","r","o","s","o","f","t">> >>,
       names |-> << <<"M","i","c","r","o","s","o","f","t">> >>],
     [keys |-> << <<"m","e","t","a">>, <<"f","a","c","e","b","o","o","k">> >>,
       names |-> << <<"M","e","t","a">>, <<"F","a","c","e","b","o","o","k">> >>],
     [keys |-> << <<"a","m","a","z","o","n">> >>,
       names |-> << <<"A","m","a","z","o","n">>, <<"A","W","S">> >>],
     [keys |-> << <<"a","p","p","l","e">> >>,
       names |-> << <<"A","p","p","l","e">> >>],
     [keys |-> << <<"n","e","t","f","l","i","x">> >>,
       names |-> << <<"N","e","t","f","l","i","x">> >>] >>

BigTechRoles ==
    << <<"V","P">>,
    <<"D","i","r","e","c","t","o","r">>,
    <<"H","e","a","d">>,
    <<"L","e","a","d">>,
    <<"S","e","n","i","o","r">>,
    <<"P","r","i","n","c","i","p","a","l">>,
    <<"E","n","g","i","n","e","e","r","i","n","g">>,
    <<"P","r","o","d","u","c","t">> >>

commonRoles ==
    << <<"V","P">>,
    <<"D","i","r","e","c","t","o","r">>,
    <<"M","a","n","a","g","e","r">>,
    <<"E","x","e","c","u","t","i","v","e">>,
    <<"L","e","a","d">>,
    <<"S","e","n","i","o","r">>,
    <<"C","h","i","e","f">>,
    <<"E","n","g","i","n","e","e","r">>,
    <<"P","r","o","d","u","c","t">> >>

roleWords ==
    << <<"e","n","g","i","n","e","e","r","i","n","g">>,
    <<"p","r","o","d","u","c","t">>,
    <<"s","a","l","e","s">>,
    <<"m","a","r","k","e","t","i","n","g">>,
    <<"e","x","e","c","u","t","i","v","e">>,
    <<"d","i","r","e","c","t","o","r">>,
    <<"m","a","n","a","g","e","r">>,
    <<"v","p">>,
    <<"c","h","i","e","f">>,
    <<"c","e","o">>,
    <<"c","t","o">>,
    <<"c","i","o">>,
    <<"f","o","u","n","d","e","r">>,
    <<"a","r","c","h","i","t","e","c","t">>,
    <<"c","o","n","s","u","l","t","a","n","t">>,
    <<"a","n","a","l","y","s","t">> >>

BroadRoles ==
    << <<"V","P">>,
    <<"D","i","r","e","c","t","o","r">>,
    <<"S","e","n","i","o","r">>,
    <<"L","e","a","d">>,
    <<"M","a","n","a","g","e","r">> >>

FormerMarks ==
    << <<"f","o","r","m","e","r">>,
    <<"e","x","-">> >>

CurrentMark ==
    <<"c","u","r","r","e","n","t">>
(***************************************************************************)
(* Criteria extractor: the deterministic fallback of generateSearchQueries *)
(***************************************************************************)
\* the lines `if (queryLower.includes(key)) companies.push(...names)` of one
\* rule, in source order, starting from the list acc
RECURSIVE pushMentioned(_, _, _)
pushMentioned(firms, queryLower, acc) ==
    IF Len(firms) = 0 THEN acc
    ELSE pushMentioned(Tail(firms), queryLower,
            IF \E k \in 1..Len(firms[1].keys) : includes(queryLower, firms[1].keys[k])
            THEN acc \o firms[1].names
            ELSE acc)

\* variant of the employment status that looks for 'current' first
fallbackEmploymentStatusCurrentFirst(queryLower) ==
    IF includes(queryLower, CurrentMark) THEN "current"
    ELSE IF \E k \in 1..Len(FormerMarks) : includes(queryLower, FormerMarks[k])
    THEN "former" ELSE "any"

\* `employmentStatus` after the block `// Extract employment status`
fallbackEmploymentStatus(queryLower) ==
    IF \E k \in 1..Len(FormerMarks) : includes(queryLower, FormerMarks[k])
    THEN "former"
    ELSE IF includes(queryLower, CurrentMark) THEN "current" ELSE "any"

\* variant of the chain that tests the consulting firms before the Big 5
\* phrases
fallbackRuleConsultingFirst(queryLower) ==
    IF matchesWord(queryLower, ConsultingPattern) THEN "consulting"
    ELSE IF \E k \in 1..Len(Big5Phrases) : includes(queryLower, Big5Phrases[k])
    THEN "big5"
    ELSE IF matchesWord(queryLower, ResellerPattern) \/ includes(queryLower, ResellerPhrase)
         THEN "reseller"
    ELSE IF matchesWord(queryLower, FintechPattern) \/ includes(queryLower, FintechWord)
         THEN "fintech"
    ELSE IF matchesWord(queryLower, BigTechPattern) THEN "bigtech"
    ELSE "default"

\* variant of the chain that tests the big tech names before the consulting
\* firms
fallbackRuleBigTechFirst(queryLower) ==
    IF \E k \in 1..Len(Big5Phrases) : includes(queryLower, Big5Phrases[k])
    THEN "big5"
    ELSE IF matchesWord(queryLower, BigTechPattern) THEN "bigtech"
    ELSE IF matchesWord(queryLower, ConsultingPattern) THEN "consulting"
    ELSE IF matchesWord(queryLower, ResellerPattern) \/ includes(queryLower, ResellerPhrase)
         THEN "reseller"
    ELSE IF matchesWord(queryLower, FintechPattern) \/ includes(queryLower, FintechWord)
         THEN "fintech"
    ELSE "default"


\* which branch of the if / else-if chain is taken
fallbackRule(queryLower) ==
    IF \E k \in 1..Len(Big5Phrases) : includes(queryLower, Big5Phrases[k])
    THEN "big5"
    ELSE IF matchesWord(queryLower, ConsultingPattern) THEN "consulting"
    ELSE IF matchesWord(queryLower, ResellerPattern) \/ includes(queryLower, ResellerPhrase)
         THEN "reseller"
    ELSE IF matchesWord(queryLower, FintechPattern) \/ includes(queryLower, FintechWord)
         THEN "fintech"
    ELSE IF matchesWord(queryLower, BigTechPattern) THEN "bigtech"
    ELSE "default"

\* word.replace(/[^a-zA-Z]/g, '')
cleanedOf(word) == SelectSeq(word, LAMBDA c : c \in Letters)

isCompanyWord(word) ==
    LET cleaned == cleanedOf(word)
    IN  /\ Len(cleaned) > 2
        /\ cleaned[1] = UpperOf(cleaned[1])
        /\ ~listIncludes(commonRoles, cleaned)

isRoleWord(word) == listIncludes(roleWords, toLowerCase(word))

\* variant of the generic branch without the broad-role replacement
genericExtractionNoBroad(query, companies0, roleKeywords0) ==
    LET words == split(query, Whitespace \cup {","})
        found == SelectSeq(words, isCompanyWord)
    IN  [companies |-> companies0 \o [i \in 1..Len(found) |-> cleanedOf(found[i])],
         roleKeywords |-> roleKeywords0 \o SelectSeq(words, isRoleWord)]

\* the generic branch: candidate companies and role words out of the query
genericExtraction(query, companies0, roleKeywords0) ==
    LET words == split(query, Whitespace \cup {","})
        found == SelectSeq(words, isCompanyWord)
        companies == companies0 \o [i \in 1..Len(found) |-> cleanedOf(found[i])]
        roleKeywords == roleKeywords0 \o SelectSeq(words, isRoleWord)
    IN  IF Len(companies) = 0 /\ Len(roleKeywords) = 0
        THEN [companies |-> companies, roleKeywords |-> BroadRoles]
        ELSE [companies |-> companies, roleKeywords |-> roleKeywords]

\* variant that never starts from the explicit parameter
explicitFilterDropped(parameter) == <<>>

\* `if (currentCompany) companies.push(currentCompany)` and the same line
\* for currentTitle: the list the rules start from
explicitFilter(parameter) ==
    IF Truthy(parameter) THEN <<parameter[1]>> ELSE <<>>


\* the single variant built after the AI path has not returned
fallbackSearch(query, currentCompany, currentTitle) ==
    LET companies0 == explicitFilter(currentCompany)
        roleKeywords0 == explicitFilter(currentTitle)
        queryLower == toLowerCase(query)
        rule == fallbackRule(queryLower)
        named == pushMentioned(ConsultingFirms, queryLower, <<>>)
        picked ==
            CASE rule = "big5" ->
                    [companies |-> Big5Companies, roleKeywords |-> Big5Roles]
              [] rule = "consulting" ->
                    [companies |-> IF includes(queryLower, ConsultingWord) /\ Len(named) = 0
                                   THEN ConsultingDefault ELSE named,
                     roleKeywords |-> ConsultingRoles]
              [] rule = "reseller" ->
                    [companies |-> pushMentioned(ResellerFirms, queryLower, companies0),
                     roleKeywords |-> ResellerRoles]
              [] rule = "fintech" ->
                    [companies |-> pushMentioned(FintechFirms, queryLower, companies0),
                     roleKeywords |-> FintechRoles]
              [] rule = "bigtech" ->
                    [companies |-> pushMentioned(BigTechFirms, queryLower, companies0),
                     roleKeywords |-> BigTechRoles]
              [] OTHER -> genericExtraction(query, companies0, roleKeywords0)
    IN  [t |-> "object",
         companies |-> Arr(picked.companies),
         role_keywords |-> Arr(picked.roleKeywords),
         employment_status |-> fallbackEmploymentStatus(queryLower),
         reasoning |-> "Fallback search with pattern detection and extraction"]

\* `return [{ companies, role_keywords, employment_status, reasoning }]`
fallbackBatch(query, currentCompany, currentTitle) ==
    << fallbackSearch(query, currentCompany, currentTitle) >>

(***************************************************************************)
(* Criteria extractor: the AI-backed path of generateSearchQueries         *)
(*                                                                         *)
(* A reply of the AI service is one of                                     *)
(*   [kind |-> "fetch_throws"]  fetch rejects (network failure, timeout)   *)
(*   [kind |-> "not_ok"]        HTTP status outside 2xx                    *)
(*   [kind |-> "bad_body"]      body is not JSON or has no content[0].text *)
(*   [kind |-> "no_json"]       text without {..."searches"...}            *)
(*   [kind |-> "unparseable"]   the matched text is not valid JSON         *)
(*   [kind |-> "parsed", searches |-> v]  JSON.parse gives {searches: v}   *)
(***************************************************************************)
\* parsed.searches.length, parsed.searches[0].companies.join(', '),
\* parsed.searches[0].role_keywords.join(', '): TRUE when none of them
\* throws a TypeError
logsWithoutThrowing(searches) ==
    /\ searches.t = "array"
    /\ Len(searches.v) > 0
    /\ searches.v[1].t = "object"
    /\ searches.v[1].companies.t = "array"
    /\ searches.v[1].role_keywords.t = "array"

\* the body of the try block once the key is known to be set: "return"
\* with the value returned, "warn" when it ends after a console.warn, or
\* "exception" when a statement of it throws
aiAttempt(reply) ==
    CASE reply.kind = "fetch_throws" -> [outcome |-> "exception"]
      [] reply.kind = "not_ok"       -> [outcome |-> "warn"]
      [] reply.kind = "bad_body"     -> [outcome |-> "exception"]
      [] reply.kind = "no_json"      -> [outcome |-> "warn"]
      [] reply.kind = "unparseable"  -> [outcome |-> "exception"]
      [] reply.kind = "parsed" ->
            IF logsWithoutThrowing(reply.searches)
            THEN [outcome |-> "return", value |-> reply.searches.v]
            ELSE [outcome |-> "exception"]

\* variant without the catch block: what the try block does leaves it
aiNoCatch(reply) == aiAttempt(reply)

\* try { ... } catch (error) { console.warn(...) }: what leaves the
\* try / catch statement
aiTryCatch(reply) ==
    LET attempt == aiAttempt(reply)
    IN  IF attempt.outcome = "exception" THEN [outcome |-> "warn"] ELSE attempt

\* generateSearchQueries after the AI reply has arrived (or, with hasReply
\* FALSE, when no key is configured and no call is made)
generateSearchQueries(hasReply, reply, query, currentCompany, currentTitle) ==
    LET ai == IF hasReply THEN aiTryCatch(reply) ELSE [outcome |-> "warn"]
    IN  CASE ai.outcome = "return" ->
                [outcome |-> "return", source |-> "ai", batch |-> ai.value]
          [] ai.outcome = "warn" ->
                [outcome |-> "return", source |-> "fallback",
                 batch |-> fallbackBatch(query, currentCompany, currentTitle)]
          [] OTHER -> [outcome |-> "throw"]

(***************************************************************************)
(* Topic normaliser of searchInterviews                                    *)
(***************************************************************************)
TopicThreshold == 50

MinWordLength == 3

MaxKeyWords == 4

SanitizedChars == {";", "'", "\"", "\\"}

fillerWords ==
    << <<"i","n","t","e","r","v","i","e","w","s">>,
    <<"w","i","t","h">>,
    <<"c","u","s","t","o","m","e","r","s">>,
    <<"o","f">>,
    <<"t","h","e">>,
    <<"a","n","d">>,
    <<"o","r">>,
    <<"a","b","o","u","t">>,
    <<"f","o","r">>,
    <<"i","n">>,
    <<"o","n">>,
    <<"a","t">>,
    <<"t","o">>,
    <<"f","r","o","m">>,
    <<"a","l","l">>,
    <<"f","i","n","d">>,
    <<"s","e","a","r","c","h">>,
    <<"p","l","e","a","s","e">>,
    <<"m","e">>,
    <<"t","h","a","t">>,
    <<"t","h","i","s">>,
    <<"w","h","a","t">>,
    <<"h","o","w">>,
    <<"w","h","y">>,
    <<"s","o","f","t","w","a","r","e">>,
    <<"p","r","o","c","e","s","s">> >>

\* searchTerms.replace(/\([^)]*\)/g, ' '): a match runs from a "(" to the
\* first ")" after it; position i lies in a match when some "(" at or before
\* it has no ")" strictly between them and a ")" follows at i or later; each
\* match leaves one space
stripParentheticals(s) ==
    LET n == Len(s)
        inMatch(i) ==
            /\ \E p \in 1..i : s[p] = "(" /\ \A k \in (p + 1)..(i - 1) : s[k] # ")"
            /\ \E c \in i..n : s[c] = ")"
        opens(i) == inMatch(i) /\ s[i] = "(" /\ (i = 1 \/ ~inMatch(i - 1) \/ s[i - 1] = ")")
        kept == SelectSeq([i \in 1..n |-> i], LAMBDA i : ~inMatch(i) \/ opens(i))
    IN  [k \in 1..Len(kept) |-> IF inMatch(kept[k]) THEN " " ELSE s[kept[k]]]

\* variant of the block without the filter on fillerWords
extractKeyTermsKeepFillers(questionTopic) ==
    IF Len(questionTopic) > TopicThreshold
    THEN LET stripped == stripParentheticals(questionTopic)
             words == split(toLowerCase(stripped),
                            Whitespace \cup {",", ";", ".", "!", "?"})
             keyWords == SelectSeq(words, LAMBDA word : Len(word) > MinWordLength)
         IN  join(SubSeq(keyWords, 1, IF Len(keyWords) < MaxKeyWords
                                      THEN Len(keyWords) ELSE MaxKeyWords),
                  <<" ">>)
    ELSE questionTopic

\* the block `if (searchTerms.length > 50) { ... }` of the keyword revision
extractKeyTerms(questionTopic) ==
    IF Len(questionTopic) > TopicThreshold
    THEN LET stripped == stripParentheticals(questionTopic)
             words == split(toLowerCase(stripped),
                            Whitespace \cup {",", ";", ".", "!", "?"})
             keyWords == SelectSeq(words,
                            LAMBDA word : /\ Len(word) > MinWordLength
                                          /\ ~listIncludes(fillerWords, word))
         IN  join(SubSeq(keyWords, 1, IF Len(keyWords) < MaxKeyWords
                                      THEN Len(keyWords) ELSE MaxKeyWords),
                  <<" ">>)
    ELSE questionTopic

\* variant without the trim()
sanitizeNoTrim(searchTerms) ==
    [i \in 1..Len(searchTerms) |->
        IF searchTerms[i] \in SanitizedChars THEN " " ELSE searchTerms[i]]

\* variant whose character class lacks the backslash
sanitizeNoBackslash(searchTerms) ==
    trim([i \in 1..Len(searchTerms) |->
            IF searchTerms[i] \in {";", "'", "\""} THEN " " ELSE searchTerms[i]])

\* searchTerms.replace(/[;'"\\]/g, ' ').trim()
sanitize(searchTerms) ==
    trim([i \in 1..Len(searchTerms) |->
            IF searchTerms[i] \in SanitizedChars THEN " " ELSE searchTerms[i]])

\* generateSemanticSearchTerms once the reply of the AI expander has arrived
\* (hasReply FALSE: no key is configured and the query is returned at once).
\* A reply is [kind |-> "fetch_throws" | "not_ok" | "bad_body"] or
\* [kind |-> "text", text |-> s]
generateSemanticSearchTerms(hasReply, reply, query) ==
    IF ~hasReply THEN query
    ELSE IF reply.kind = "text" THEN trim(reply.text)
    ELSE query

\* the try block of the semantic revision around the expansion
semanticSearchTerms(hasReply, reply, questionTopic) ==
    LET semanticTerms == generateSemanticSearchTerms(hasReply, reply, questionTopic)
    IN  IF Len(semanticTerms) > 0 THEN semanticTerms ELSE questionTopic

\* the string interpolated into query.or(`question_text.ilike.%...%,...`)
keywordFilterTopic(questionTopic) == sanitize(extractKeyTerms(questionTopic))

semanticFilterTopic(hasReply, reply, questionTopic) ==
    sanitize(semanticSearchTerms(hasReply, reply, questionTopic))

(***************************************************************************)
(* Words and texts the inputs of the model are built from                  *)
(***************************************************************************)
\* the words the model's queries are built from
Vocabulary ==
    << <<"B","i","g">>,
    <<"5">>,
    <<"f","o","r","m","e","r">>,
    <<"c","u","r","r","e","n","t">>,
    <<"e","x","-","C","E","O">>,
    <<"M","c","K","i","n","s","e","y">>,
    <<"c","o","n","s","u","l","t","i","n","g">>,
    <<"G","o","o","g","l","e">>,
    <<"C","D","W">>,
    <<"l","e","a","d","e","r","s","h","i","p">>,
    <<"f","i","n","t","e","c","h">>,
    <<"F","i","n","d">>,
    <<"e","n","g","i","n","e","e","r","i","n","g">>,
    <<"V","P","s">>,
    <<"H","P">>,
    <<"e","x","p","e","r","t","s">> >>

\* the words the model's topics are built from
TopicVocabulary ==
    << <<"v","e","n","d","o","r">>,
    <<"p","r","i","c","i","n","g">>,
    <<"t","h","e">>,
    <<"w","h","a","t">>,
    <<"i","t","'","s">>,
    <<";">>,
    <<"\"","q","u","o","t","e","d","\"">>,
    <<"a","\\","b">>,
    <<"(","E","A","S","M",")">>,
    <<"c","o","n","s","o","l","i","d","a","t","i","o","n">> >>

\* lead-ins longer than the reduction threshold: one of filler words only,
\* one the verbose question of the specification's scenario
TopicLeads ==
    << <<>>,
    <<"p","l","e","a","s","e"," ","f","i","n","d"," ","m","e"," ","a","l","l"," ","o","f"," ","t","h","e"," ","i","n","t","e","r","v","i","e","w","s"," ","w","i","t","h"," ","c","u","s","t","o","m","e","r","s"," ","a","b","o","u","t">>,
    <<"W","h","a","t"," ","d","o"," ","c","u","s","t","o","m","e","r","s"," ","t","h","i","n","k"," ","a","b","o","u","t"," ","A","d","o","b","e"," ","P","h","o","t","o","s","h","o","p"," ","p","r","i","c","i","n","g"," ","a","n","d"," ","s","u","b","s","c","r","i","p","t","i","o","n"," ","v","a","l","u","e"," ","c","o","m","p","a","r","e","d"," ","t","o"," ","C","a","p","t","u","r","e"," ","O","n","e"," ","o","v","e","r"," ","t","h","e"," ","l","a","s","t"," ","t","w","o"," ","y","e","a","r","s">> >>

\* texts the AI expander may answer with
ExpansionTexts ==
    << <<>>,
    <<" ">>,
    <<"s","u","p","p","l","i","e","r"," ","p","r","o","v","i","d","e","r">>,
    <<"v","e","n","d","o","r","'","s"," ","\"","d","e","a","l","\"",";"," ","a","\\","b">>,
    <<";">> >>

Acme == <<"A","c","m","e">>

Analyst == <<"A","n","a","l","y","s","t">>

(***************************************************************************)
(* Bounds of the model                                                     *)
(***************************************************************************)
\* words in a query handed to the fallback
MaxWords == 2

\* variants in a batch answered by the AI service
MaxVariants == 5

\* words in a topic (after the lead-in)
MaxTopicWords == 1

\* rows a store answers with
MaxRows == 2

\* characters in a query of a search_experts request
MaxPipelineQueryLength == 3

(***************************************************************************)
(* Inputs                                                                  *)
(***************************************************************************)
RECURSIVE WordLists(_, _)
WordLists(vocabulary, n) ==
    IF n = 0 THEN {<<>>}
    ELSE LET shorter == WordLists(vocabulary, n - 1)
         IN  shorter \cup {Append(ws, vocabulary[i]) :
                              ws \in {x \in shorter : Len(x) = n - 1},
                              i \in 1..Len(vocabulary)}

\* queries of up to MaxWords words, separated by single spaces
Queries == {join(ws, <<" ">>) : ws \in WordLists(Vocabulary, MaxWords)}

\* queries of the end-to-end scenarios and of the repository's test script,
\* and one that names the second Big 5 phrase next to a consulting firm
BigFiveScenario == <<"B","i","g"," ","5"," ","s","e","a","r","c","h"," ","f","i","r","m","s">>

FormerGoogleScenario == <<"f","o","r","m","e","r"," ","G","o","o","g","l","e"," ","e","n","g","i","n","e","e","r","i","n","g"," ","V","P","s">>

CurrentOrFormerScenario == <<"c","u","r","r","e","n","t"," ","o","r"," ","f","o","r","m","e","r"," ","e","n","g","i","n","e","e","r","i","n","g"," ","V","P","s"," ","a","t"," ","c","l","o","u","d"," ","p","r","o","v","i","d","e","r","s">>

SearchFirmScenario == <<"e","x","e","c","u","t","i","v","e"," ","s","e","a","r","c","h"," ","f","i","r","m"," ","p","a","r","t","n","e","r","s"," ","f","r","o","m"," ","M","c","K","i","n","s","e","y">>

ScenarioQueries ==
    {BigFiveScenario, FormerGoogleScenario, CurrentOrFormerScenario, SearchFirmScenario}

\* the short queries, used where the whole request pipeline runs
PipelineQueries == {q \in Queries : Len(q) <= MaxPipelineQueryLength}

Topics ==
    {trim(TopicLeads[l] \o <<" ">> \o join(ws, <<" ">>)) :
        l \in 1..Len(TopicLeads), ws \in WordLists(TopicVocabulary, MaxTopicWords)}
    \cup {<<";">>, <<" ", "'">>}

Opt(S) == {<<>>} \cup {<<x>> : x \in S}

LimitArgs == {<<>>, <<5>>, <<101>>}

\* what a caller may put where an identifier is expected
IdArgs ==
    {[t |-> "undefined"], [t |-> "number"],
     [t |-> "string", numeric |-> TRUE], [t |-> "string", numeric |-> FALSE]}

ExpertArgs ==
    [query : Opt(PipelineQueries),
     currentCompany : Opt({Acme}),
     currentTitle : Opt({Analyst}),
     limit : LimitArgs]

InterviewArgs == [questionTopic : Opt(Topics \cup {<<>>}), limit : LimitArgs]

\* elements the AI service may put first in "searches"
AIFirstElements ==
    {[t |-> "object", companies |-> Arr(<<Acme>>), role_keywords |-> Arr(<<Analyst>>),
      employment_status |-> "former", reasoning |-> "ai"],
     [t |-> "object", companies |-> Arr(<<>>), role_keywords |-> Arr(<<Analyst>>),
      employment_status |-> "any", reasoning |-> "ai"],
     [t |-> "object", companies |-> Arr(<<Acme>>), role_keywords |-> Arr(<<>>),
      employment_status |-> "current", reasoning |-> "ai"],
     [t |-> "object", companies |-> Arr(<<>>), role_keywords |-> Arr(<<>>),
      employment_status |-> "any", reasoning |-> "ai"],
     [t |-> "object", companies |-> Undefined, role_keywords |-> Arr(<<Analyst>>),
      employment_status |-> "any", reasoning |-> "ai"],
     [t |-> "object", companies |-> Arr(<<Acme>>), role_keywords |-> Undefined,
      employment_status |-> "any", reasoning |-> "ai"],
     [t |-> "object", companies |-> Str(Acme), role_keywords |-> Arr(<<Analyst>>),
      employment_status |-> "any", reasoning |-> "ai"],
     [t |-> "null"]}

\* the element the AI service repeats after the first
AIOtherElement ==
    [t |-> "object", companies |-> Arr(<<Analyst>>), role_keywords |-> Arr(<<Acme>>),
     employment_status |-> "current", reasoning |-> "ai other"]

AIBatches ==
    {<<>>} \cup
    {<<first>> \o [i \in 1..n |-> AIOtherElement] :
        first \in AIFirstElements, n \in 0..(MaxVariants - 1)}

AISearches == {Undefined, Str(Acme)} \cup {Arr(b) : b \in AIBatches}

AIReplies ==
    {[kind |-> k] : k \in {"fetch_throws", "not_ok", "bad_body", "no_json", "unparseable"}}
    \cup {[kind |-> "parsed", searches |-> s] : s \in AISearches}

ExpansionReplies ==
    {[kind |-> k] : k \in {"fetch_throws", "not_ok", "bad_body"}}
    \cup {[kind |-> "text", text |-> ExpansionTexts[i]] : i \in 1..Len(ExpansionTexts)}

StoreErrors ==
    {[code |-> "PGRST116", message |-> "no rows returned"],
     [code |-> "08006", message |-> "connection failure"]}

Rows == {[i \in 1..n |-> i] : n \in 0..MaxRows}

\* { data, error } of a query that selects rows; data may be null
ListReplies ==
    {[error |-> <<>>, data |-> d] : d \in Opt(Rows)}
    \cup {[error |-> <<e>>, data |-> <<>>] : e \in StoreErrors}

\* { data, error } of a .single() query: the one row, or an error
SingleReplies ==
    {[error |-> <<>>, data |-> << <<1>> >>]}
    \cup {[error |-> <<e>>, data |-> <<>>] : e \in StoreErrors}

(***************************************************************************)
(* Validation schemas and the responses of the handlers                    *)
(***************************************************************************)
ExpertLimitMax == 50

ExpertLimitDefault == 10

InterviewLimitMax == 100

InterviewLimitDefault == 20

\* ExpertSearchSchema.parse(arguments_) does not throw
ExpertSearchSchemaOk(a) ==
    /\ Len(a.query) = 1 /\ Len(a.query[1]) >= 1
    /\ (Len(a.limit) = 1 => a.limit[1] >= 1 /\ a.limit[1] <= ExpertLimitMax)

\* InterviewSearchSchema.parse(arguments_) does not throw
InterviewSearchSchemaOk(a) ==
    Len(a.limit) = 1 => a.limit[1] >= 1 /\ a.limit[1] <= InterviewLimitMax

parsedLimit(a, default) == IF Len(a.limit) = 1 THEN a.limit[1] ELSE default

\* the value a tool handler returns: `text` is the list of the parts the
\* text is assembled from, `json` tells whether the text is the output of
\* JSON.stringify, `records` are the store rows the text presents
NoResponse ==
    [thrown |-> FALSE, isError |-> FALSE, json |-> FALSE, text |-> <<>>, records |-> <<>>]

\* the catch block of a tool handler
errorResponse(message) ==
    [thrown |-> FALSE, isError |-> TRUE, json |-> FALSE,
     text |-> <<"Error: ">> \o message, records |-> <<>>]

textResponse(parts, rows) ==
    [thrown |-> FALSE, isError |-> FALSE, json |-> FALSE, text |-> parts, records |-> rows]

jsonResponse(parts, rows) ==
    [thrown |-> FALSE, isError |-> FALSE, json |-> TRUE, text |-> parts, records |-> rows]

\* `data || []`
rowsOf(reply) == IF Len(reply.data) = 1 THEN reply.data[1] ELSE <<>>

\* variant that drops the `if (error) throw`: the rows, whatever the store said
storeResultSwallow(reply, failure) == [threw |-> FALSE, rows |-> rowsOf(reply)]

\* the methods of SupabaseService after the store has answered: the rows
\* returned, or the Error thrown
storeResult(reply, failure) ==
    IF Len(reply.error) = 1
    THEN [threw |-> TRUE, message |-> <<failure, reply.error[1].message>>]
    ELSE [threw |-> FALSE, rows |-> rowsOf(reply)]

searchInterviewsResult(reply) == storeResult(reply, "Failed to search interviews: ")

searchExpertsResult(reply) == storeResult(reply, "Failed to search experts: ")

getExpertInterviewHistoryResult(reply) ==
    storeResult(reply, "Failed to get expert interview history: ")

getFullInterviewResult(reply) == storeResult(reply, "Failed to get full interview: ")

\* getExpertProfile: the no-row code of .single() gives null
getExpertProfileResult(reply) ==
    IF Len(reply.error) = 1
    THEN IF reply.error[1].code = "PGRST116"
         THEN [threw |-> FALSE, rows |-> <<>>]
         ELSE [threw |-> TRUE,
               message |-> <<"Failed to get expert profile: ", reply.error[1].message>>]
    ELSE [threw |-> FALSE, rows |-> rowsOf(reply)]

\* the tool handlers from the result of the service method to the response
searchExpertsResponse(result) ==
    IF result.threw THEN errorResponse(result.message)
    ELSE textResponse(<<"EXPERT SEARCH RESULTS">>, result.rows)

getExpertProfileResponse(result) ==
    IF result.threw THEN errorResponse(result.message)
    ELSE IF Len(result.rows) = 0
         THEN textResponse(<<"Expert with ID ", "not found.">>, <<>>)
         ELSE jsonResponse(<<"profile">>, result.rows)

searchInterviewsResponse(result) ==
    IF result.threw THEN errorResponse(result.message)
    ELSE textResponse(<<"Found ", "expert insights">>, result.rows)

getExpertInterviewHistoryResponse(result) ==
    IF result.threw THEN errorResponse(result.message)
    ELSE jsonResponse(<<"expert_id", "total_interviews", "interviews">>, result.rows)

getFullInterviewResponse(result) ==
    IF result.threw THEN errorResponse(result.message)
    ELSE IF Len(result.rows) = 0
         THEN textResponse(<<"No interview found with meeting ID: ">>, <<>>)
         ELSE jsonResponse(<<"meeting_id", "questions_and_answers", "overall_quality">>,
                           result.rows)

(***************************************************************************)
(* HTTP wrapper                                                            *)
(***************************************************************************)
NoHttp == [status |-> 0]

\* handleToolRequest followed by res.json(result)
handleToolRequest(result) ==
    IF result.thrown
    THEN [status |-> 200, success |-> FALSE, error |-> result.text]
    ELSE [status |-> 200, success |-> TRUE,
          data |-> [parsed |-> result.json, text |-> result.text,
                    records |-> result.records]]

\* res.status(400).json({ success: false, error })
badRequest(error) == [status |-> 400, success |-> FALSE, error |-> <<error>>]

(***************************************************************************)
(* State                                                                   *)
(***************************************************************************)
VARIABLES
    pc,             \* where the request in progress stands
    via,            \* "mcp": the stdio dispatcher; "http": a REST endpoint
    tool,           \* name of the tool handler serving the request
    args,           \* the arguments of the request
    anthropicKey,   \* process.env.ANTHROPIC_API_KEY is set, as read by the request
    normalizer,     \* revision of searchInterviews serving it: "keyword" | "semantic"
    aiCalls,        \* fetches sent to the AI service for this request
    fallbackRuns,   \* times the fallback block has run for this request
    storeCalls,     \* queries / RPCs sent to a store for this request
    aiReply,        \* the reply of the AI service, once received
    extraction,     \* what generateSearchQueries returned
    rpcArgs,        \* <<>> or <<the arguments of search_experts_company_role>>
    filterTopic,    \* <<>> or <<the string interpolated into the .or() filter>>
    queryLimit,     \* <<>> or <<the .limit() of the interview query>>
    storeReply,     \* the reply of the store, once received
    response,       \* the value the tool handler returned
    httpResponse,   \* the body sent by the REST endpoint
    fbInput,        \* input of a run of the fallback on its own
    fbOutput,       \* <<>> or <<the batch that run returned>>
    scInput,        \* interview records handed to the score aggregation on its own
    scOutput,       \* <<>> or <<the insights that run returned>>
    queryMinCredibility, \* <<>> or <<the bound of the credibility filter of the query>>
    prompt,         \* <<>> or <<what the synthesis prompt says about the records>>
    payload,        \* the fields of the object a synthesis request answers with
    slackReply,     \* outcome of the POST to the Slack webhook, once known
    calls,          \* the handler invocations in progress at the same time
    frames,         \* the local variables of those invocations
    process,        \* configuration and store handles made at start-up
    rpcRequest,     \* the body of the POST /mcp request in progress
    rpcResponses,   \* the bodies sent in answer to it
    initialized,    \* an initialize request has been answered before
    fnInput,        \* <<>> or <<the argument a function is applied to on its own>>
    fnOutput,       \* <<>> or <<what the function returned for it>>
    expertDetails,  \* request_expert_interview: the profile lookups, one per id
    notification    \* <<>> or <<what was handed to the Slack service>>

vars ==
    <<pc, via, tool, args, anthropicKey, normalizer, aiCalls, fallbackRuns, storeCalls,
      aiReply, extraction, rpcArgs, filterTopic, queryLimit, storeReply, response,
      httpResponse, fbInput, fbOutput, scInput, scOutput, queryMinCredibility, prompt,
      payload, slackReply, calls, frames, process, rpcRequest, rpcResponses, initialized,
      fnInput, fnOutput, expertDetails, notification>>

\* the state of the request in progress
requestVars ==
    <<pc, via, tool, args, anthropicKey, normalizer, aiCalls, fallbackRuns, storeCalls,
      aiReply, extraction, rpcArgs, filterTopic, queryLimit, storeReply, response,
      httpResponse>>

\* state outside the search pipeline and the fallback: left alone by both
synthesisVars == <<queryMinCredibility, prompt, payload>>

notifyVars == <<slackReply>>

concurrentVars == <<calls, frames, process>>

rpcVars == <<rpcRequest, rpcResponses, initialized>>

pureVars == <<fnInput, fnOutput>>

interviewVars == <<expertDetails, notification>>

laterVars == <<notifyVars, concurrentVars, rpcVars, pureVars, interviewVars>>

otherVars == <<scInput, scOutput, synthesisVars, laterVars>>

NoArgs ==
    [query |-> <<>>, currentCompany |-> <<>>, currentTitle |-> <<>>, limit |-> <<>>,
     questionTopic |-> <<>>, id |-> [t |-> "undefined"]]

NoReply == [kind |-> "none"]

NoStoreReply == [error |-> <<>>, data |-> <<>>, received |-> FALSE]

NoExtraction == [outcome |-> "none"]

received(reply) == [error |-> reply.error, data |-> reply.data, received |-> TRUE]

\* no request in progress
InitRequest ==
    /\ pc = "idle"
    /\ via = "mcp"
    /\ tool = "none"
    /\ args = NoArgs
    /\ anthropicKey = FALSE
    /\ normalizer = "semantic"
    /\ aiCalls = 0
    /\ fallbackRuns = 0
    /\ storeCalls = 0
    /\ aiReply = NoReply
    /\ extraction = NoExtraction
    /\ rpcArgs = <<>>
    /\ filterTopic = <<>>
    /\ queryLimit = <<>>
    /\ storeReply = NoStoreReply
    /\ response = NoResponse
    /\ httpResponse = NoHttp

NoFallbackInput == [query |-> <<>>, currentCompany |-> <<>>, currentTitle |-> <<>>]

\* nothing has been handed to the score aggregation
NoPayload == [kind |-> "none"]

\* no synthesis request has been served
InitSynthesis ==
    /\ queryMinCredibility = <<>>
    /\ prompt = <<>>
    /\ payload = NoPayload

\* the invocations that may be in progress at the same time
Requests == {"first", "second"}

\* an invocation that has not started
NoCall ==
    [pc |-> "idle", params |-> <<>>, expansion |-> NoReply, sent |-> <<>>,
     reply |-> NoStoreReply, response |-> NoResponse]

\* the locals of searchInterviews before they are assigned
NoFrame == [params |-> <<>>, searchTerms |-> <<>>]

\* what module initialisation leaves: env and the two clients of the
\* SupabaseService instance
StartUp(key) ==
    [anthropicKey |-> key, interviewsClient |-> "interview_questions store",
     expertsClient |-> "people store"]

NoRpc == [id |-> <<>>, method |-> "none", params |-> <<>>]

InitConcurrent ==
    /\ calls = [r \in Requests |-> NoCall]
    /\ frames = [r \in Requests |-> NoFrame]
    /\ process = StartUp(FALSE)

InitRpc ==
    /\ rpcRequest = NoRpc
    /\ rpcResponses = <<>>
    /\ initialized = FALSE

InitPure ==
    /\ fnInput = <<>>
    /\ fnOutput = <<>>

InitInterview ==
    /\ expertDetails = <<>>
    /\ notification = <<>>

InitLater ==
    /\ slackReply = "none"
    /\ InitConcurrent
    /\ InitRpc
    /\ InitPure
    /\ InitInterview

InitOther ==
    /\ scInput = <<>>
    /\ scOutput = <<>>
    /\ InitSynthesis
    /\ InitLater

Init ==
    /\ InitRequest
    /\ fbInput = NoFallbackInput
    /\ fbOutput = <<>>
    /\ InitOther

\* a request arrives: everything left by the previous one is gone
accept(v, name, a, key) ==
    /\ pc = "idle"
    /\ via' = v
    /\ tool' = name
    /\ args' = a
    /\ anthropicKey' = key
    /\ UNCHANGED <<fbInput, fbOutput, otherVars>>

\* the handler returns `resp`; a REST endpoint wraps it
finish(v, resp) ==
    /\ pc' = "done"
    /\ response' = resp
    /\ httpResponse' = IF v = "http" THEN handleToolRequest(resp) ELSE NoHttp

\* the endpoint answers without calling the handler
reject(http) ==
    /\ pc' = "done"
    /\ response' = NoResponse
    /\ httpResponse' = http

(***************************************************************************)
(* search_experts                                                          *)
(***************************************************************************)
\* variant that takes the last variant of the batch
lastSearch(searches) == searches[Len(searches)]

\* `const primarySearch = searches[0]` and the arguments of the RPC
primarySearch(searches) == searches[1]

rpcArguments(searches, a) ==
    [p_companies |-> primarySearch(searches).companies,
     p_role_keywords |-> primarySearch(searches).role_keywords,
     p_employment_status |-> primarySearch(searches).employment_status,
     p_limit |-> parsedLimit(a, ExpertLimitDefault)]

\* searchExperts from the return of generateSearchQueries to the await of
\* the RPC (or to the handler's catch block, should the extraction throw)
continueSearchExperts(v, a, result) ==
    /\ extraction' = result
    /\ fallbackRuns' = IF result.outcome = "return" /\ result.source = "fallback"
                       THEN fallbackRuns + 1 ELSE fallbackRuns
    /\ IF result.outcome = "return"
       THEN /\ rpcArgs' = <<rpcArguments(result.batch, a)>>
            /\ storeCalls' = storeCalls + 1
            /\ pc' = "await_rpc"
            /\ UNCHANGED <<response, httpResponse>>
       ELSE /\ finish(v, errorResponse(<<"generateSearchQueries threw">>))
            /\ UNCHANGED <<rpcArgs, storeCalls>>

\* handleExpertTool('search_experts') up to its first await
ReceiveSearchExperts(v, a, key) ==
    /\ accept(v, "search_experts",
              [NoArgs EXCEPT !.query = a.query, !.currentCompany = a.currentCompany,
                             !.currentTitle = a.currentTitle, !.limit = a.limit], key)
    /\ UNCHANGED <<normalizer, aiReply, filterTopic, queryLimit, storeReply>>
    /\ IF v = "http" /\ ~Truthy(a.query)
       THEN /\ reject(badRequest("Query parameter is required"))
            /\ UNCHANGED <<aiCalls, fallbackRuns, storeCalls, extraction, rpcArgs>>
       ELSE IF ~ExpertSearchSchemaOk(a)
       THEN /\ finish(v, errorResponse(<<"ZodError">>))
            /\ UNCHANGED <<aiCalls, fallbackRuns, storeCalls, extraction, rpcArgs>>
       ELSE IF key
       THEN /\ aiCalls' = aiCalls + 1
            /\ pc' = "await_ai"
            /\ UNCHANGED <<fallbackRuns, storeCalls, extraction, rpcArgs, response,
                           httpResponse>>
       ELSE /\ continueSearchExperts(v, a,
                    generateSearchQueries(FALSE, NoReply, a.query[1],
                                          a.currentCompany, a.currentTitle))
            /\ UNCHANGED aiCalls

\* the fetch of generateSearchQueries completes
AIReply(reply) ==
    /\ pc = "await_ai"
    /\ tool = "search_experts"
    /\ aiReply' = reply
    /\ continueSearchExperts(via, args,
            generateSearchQueries(TRUE, reply, args.query[1],
                                  args.currentCompany, args.currentTitle))
    /\ UNCHANGED <<via, tool, args, anthropicKey, normalizer, aiCalls, filterTopic,
                   queryLimit, storeReply, fbInput, fbOutput,
                   otherVars>>

\* variant that sends the RPC once more after a first store error
ExpertsReplyRetry(reply) ==
    /\ pc = "await_rpc"
    /\ tool = "search_experts"
    /\ storeReply' = received(reply)
    /\ IF Len(reply.error) = 1 /\ storeCalls < 2
       THEN /\ storeCalls' = storeCalls + 1
            /\ UNCHANGED <<pc, response, httpResponse>>
       ELSE /\ finish(via, searchExpertsResponse(searchExpertsResult(reply)))
            /\ UNCHANGED storeCalls
    /\ UNCHANGED <<via, tool, args, anthropicKey, normalizer, aiCalls, fallbackRuns,
                   aiReply, extraction, rpcArgs, filterTopic, queryLimit,
                   fbInput, fbOutput, otherVars>>

\* the RPC completes: searchExperts returns or throws, the handler answers
ExpertsReply(reply) ==
    /\ pc = "await_rpc"
    /\ tool = "search_experts"
    /\ storeReply' = received(reply)
    /\ finish(via, searchExpertsResponse(searchExpertsResult(reply)))
    /\ UNCHANGED <<via, tool, args, anthropicKey, normalizer, aiCalls, fallbackRuns,
                   storeCalls, aiReply, extraction, rpcArgs, filterTopic, queryLimit,
                   fbInput, fbOutput, otherVars>>

(***************************************************************************)
(* get_expert_profile, get_expert_interview_history, get_full_interview    *)
(***************************************************************************)
\* a handler that checks an identifier and sends one store query
receiveLookup(v, name, id, key, idOk, idError) ==
    /\ accept(v, name, [NoArgs EXCEPT !.id = id], key)
    /\ UNCHANGED <<normalizer, aiCalls, fallbackRuns, aiReply, extraction, rpcArgs,
                   filterTopic, queryLimit, storeReply>>
    /\ IF idOk
       THEN /\ storeCalls' = storeCalls + 1
            /\ pc' = "await_store"
            /\ UNCHANGED <<response, httpResponse>>
       ELSE /\ finish(v, errorResponse(<<idError>>))
            /\ UNCHANGED storeCalls

\* GET /api/experts/profile/:expertId passes the path parameter, a string
ReceiveGetExpertProfile(v, id, key) ==
    /\ v = "http" => id.t = "string"
    /\ receiveLookup(v, "get_expert_profile", id, key,
                     id.t = "string", "expertId must be a string UUID")

\* GET /api/interviews/expert-history/:expertId answers 400 when parseInt
\* gives NaN and passes the number otherwise
ReceiveGetExpertInterviewHistory(v, id, key) ==
    /\ v = "http" => id.t = "string"
    /\ IF v = "http" /\ ~id.numeric
       THEN /\ accept(v, "get_expert_interview_history", [NoArgs EXCEPT !.id = id], key)
            /\ reject(badRequest("Invalid expert ID"))
            /\ UNCHANGED <<normalizer, aiCalls, fallbackRuns, storeCalls, aiReply,
                           extraction, rpcArgs, filterTopic, queryLimit, storeReply>>
       ELSE receiveLookup(v, "get_expert_interview_history", id, key,
                          v = "http" \/ id.t = "number", "expertId must be a number")

\* get_full_interview has no REST endpoint
ReceiveGetFullInterview(id, key) ==
    receiveLookup("mcp", "get_full_interview", id, key,
                  id.t = "string", "meetingId must be a string")

\* the store answers one of the three lookups
LookupReply(reply) ==
    /\ pc = "await_store"
    /\ tool \in {"get_expert_profile", "get_expert_interview_history", "get_full_interview"}
    /\ tool = "get_expert_profile" => reply \in SingleReplies
    /\ tool # "get_expert_profile" => reply \in ListReplies
    /\ storeReply' = received(reply)
    /\ finish(via,
              CASE tool = "get_expert_profile" ->
                      getExpertProfileResponse(getExpertProfileResult(reply))
                [] tool = "get_expert_interview_history" ->
                      getExpertInterviewHistoryResponse(getExpertInterviewHistoryResult(reply))
                [] OTHER ->
                      getFullInterviewResponse(getFullInterviewResult(reply)))
    /\ UNCHANGED <<via, tool, args, anthropicKey, normalizer, aiCalls, fallbackRuns,
                   storeCalls, aiReply, extraction, rpcArgs, filterTopic, queryLimit,
                   fbInput, fbOutput, otherVars>>

(***************************************************************************)
(* search_interviews                                                       *)
(***************************************************************************)
\* searchInterviews from the normalised topic to the await of the query
sendInterviewQuery(a, topic) ==
    /\ filterTopic' = topic
    /\ queryLimit' = <<parsedLimit(a, InterviewLimitDefault)>>
    /\ storeCalls' = storeCalls + 1
    /\ pc' = "await_interviews"
    /\ UNCHANGED <<response, httpResponse>>

\* handleInterviewTool('search_interviews') up to its first await on the
\* network: the keyword revision normalises at once, the semantic revision
\* first asks the AI expander when a key is set
ReceiveSearchInterviews(v, a, key, revision) ==
    /\ accept(v, "search_interviews",
              [NoArgs EXCEPT !.questionTopic = a.questionTopic, !.limit = a.limit], key)
    /\ normalizer' = revision
    /\ UNCHANGED <<fallbackRuns, aiReply, extraction, rpcArgs, storeReply>>
    /\ IF ~InterviewSearchSchemaOk(a)
       THEN /\ finish(v, errorResponse(<<"ZodError">>))
            /\ UNCHANGED <<aiCalls, storeCalls, filterTopic, queryLimit>>
       ELSE IF ~Truthy(a.questionTopic)
       THEN /\ sendInterviewQuery(a, <<>>)
            /\ UNCHANGED aiCalls
       ELSE IF revision = "keyword"
       THEN /\ sendInterviewQuery(a, <<keywordFilterTopic(a.questionTopic[1])>>)
            /\ UNCHANGED aiCalls
       ELSE IF key
       THEN /\ aiCalls' = aiCalls + 1
            /\ pc' = "await_expansion"
            /\ UNCHANGED <<storeCalls, filterTopic, queryLimit, response, httpResponse>>
       ELSE /\ sendInterviewQuery(a,
                    <<semanticFilterTopic(FALSE, NoReply, a.questionTopic[1])>>)
            /\ UNCHANGED aiCalls

\* the fetch of generateSemanticSearchTerms completes
ExpansionReply(reply) ==
    /\ pc = "await_expansion"
    /\ aiReply' = reply
    /\ sendInterviewQuery(args,
            <<semanticFilterTopic(TRUE, reply, args.questionTopic[1])>>)
    /\ UNCHANGED <<via, tool, args, anthropicKey, normalizer, aiCalls, fallbackRuns,
                   extraction, rpcArgs, storeReply, fbInput, fbOutput,
                   otherVars>>

\* the interview query completes
InterviewsReply(reply) ==
    /\ pc = "await_interviews"
    /\ storeReply' = received(reply)
    /\ finish(via, searchInterviewsResponse(searchInterviewsResult(reply)))
    /\ UNCHANGED <<via, tool, args, anthropicKey, normalizer, aiCalls, fallbackRuns,
                   storeCalls, aiReply, extraction, rpcArgs, filterTopic, queryLimit,
                   fbInput, fbOutput, otherVars>>

(***************************************************************************)
(* The server                                                              *)
(***************************************************************************)
\* the response is out; the handler's locals are gone
Reset ==
    /\ pc = "done"
    /\ pc' = "idle"
    /\ via' = "mcp"
    /\ tool' = "none"
    /\ args' = NoArgs
    /\ anthropicKey' = FALSE
    /\ normalizer' = "semantic"
    /\ aiCalls' = 0
    /\ fallbackRuns' = 0
    /\ storeCalls' = 0
    /\ aiReply' = NoReply
    /\ extraction' = NoExtraction
    /\ rpcArgs' = <<>>
    /\ filterTopic' = <<>>
    /\ queryLimit' = <<>>
    /\ storeReply' = NoStoreReply
    /\ response' = NoResponse
    /\ httpResponse' = NoHttp
    /\ UNCHANGED <<fbInput, fbOutput, otherVars>>

\* a caller sends a request; the model follows one request at a time
CallSearchExperts ==
    /\ pc = "idle"
    /\ \E v \in {"mcp", "http"}, a \in ExpertArgs, key \in BOOLEAN :
          ReceiveSearchExperts(v, a, key)

CallGetExpertProfile ==
    /\ pc = "idle"
    /\ \E v \in {"mcp", "http"}, id \in IdArgs, key \in BOOLEAN :
          ReceiveGetExpertProfile(v, id, key)

CallGetExpertInterviewHistory ==
    /\ pc = "idle"
    /\ \E v \in {"mcp", "http"}, id \in IdArgs, key \in BOOLEAN :
          ReceiveGetExpertInterviewHistory(v, id, key)

CallGetFullInterview ==
    /\ pc = "idle"
    /\ \E id \in IdArgs, key \in BOOLEAN : ReceiveGetFullInterview(id, key)

CallSearchInterviews ==
    /\ pc = "idle"
    /\ \E v \in {"mcp", "http"}, a \in InterviewArgs, key \in BOOLEAN,
          revision \in {"keyword", "semantic"} :
          ReceiveSearchInterviews(v, a, key, revision)

Next ==
    \/ CallSearchExperts
    \/ \E reply \in AIReplies : AIReply(reply)
    \/ \E reply \in ListReplies : ExpertsReply(reply)
    \/ CallGetExpertProfile
    \/ CallGetExpertInterviewHistory
    \/ CallGetFullInterview
    \/ \E reply \in SingleReplies \cup ListReplies : LookupReply(reply)
    \/ CallSearchInterviews
    \/ \E reply \in ExpansionReplies : ExpansionReply(reply)
    \/ \E reply \in ListReplies : InterviewsReply(reply)
    \/ Reset

Spec == Init /\ [][Next]_vars

(***************************************************************************)
(* The fallback on its own, over all queries of up to MaxWords words and   *)
(* the scenario queries                                                    *)
(***************************************************************************)
FallbackInputs ==
    [query : Queries \cup ScenarioQueries, currentCompany : Opt({Acme, <<>>}), currentTitle : Opt({Analyst, <<>>})]

InitFallback ==
    /\ InitRequest
    /\ fbInput \in FallbackInputs
    /\ fbOutput = <<>>
    /\ InitOther

RunFallback ==
    /\ fbOutput = <<>>
    /\ fbOutput' = <<fallbackBatch(fbInput.query, fbInput.currentCompany,
                                   fbInput.currentTitle)>>
    /\ UNCHANGED <<pc, via, tool, args, anthropicKey, normalizer, aiCalls, fallbackRuns,
                   storeCalls, aiReply, extraction, rpcArgs, filterTopic, queryLimit,
                   storeReply, response, httpResponse, fbInput, otherVars>>

NextFallback == RunFallback

SpecFallback == InitFallback /\ [][NextFallback]_vars


(***************************************************************************)
(* Properties                                                              *)
(***************************************************************************)
\* a search_experts request that got past the validation of its arguments
ValidExpertRequest ==
    /\ tool = "search_experts"
    /\ ExpertSearchSchemaOk(args)
    /\ (via = "http" => Truthy(args.query))

\* generateSearchQueries has returned (or thrown) for the request
Extracted == tool = "search_experts" /\ extraction.outcome # "none"

\* the store has answered the request with an error
StoreFailed == storeReply.received /\ Len(storeReply.error) = 1

\* a parsed reply whose searches value is missing, not a list, empty, or
\* whose first element lacks a companies list or a role_keywords list
SearchesUnusable(searches) ==
    \/ searches.t # "array"
    \/ Len(searches.v) = 0
    \/ searches.v[1].t # "object"
    \/ searches.v[1].companies.t # "array"
    \/ searches.v[1].role_keywords.t # "array"

\* the AI call of the request in progress did not produce a usable batch
AIFailed ==
    \/ ~anthropicKey
    \/ aiReply.kind \in {"fetch_throws", "not_ok", "bad_body", "no_json", "unparseable"}
    \/ aiReply.kind = "parsed" /\ SearchesUnusable(aiReply.searches)

\* C1: no outcome of the AI call (no key, network failure or timeout, status
\* outside 2xx, a body without a JSON object, invalid JSON, a searches value
\* that is missing, empty or whose first element lacks its two lists) makes
\* generateSearchQueries throw or turns the request into an error: the
\* fallback batch for the same inputs is returned instead, and the request
\* fails only if the store fails.
C1_AIFailureFallsBack ==
    /\ extraction.outcome # "throw"
    /\ (Extracted /\ AIFailed) =>
          /\ extraction =
                [outcome |-> "return", source |-> "fallback",
                 batch |-> fallbackBatch(args.query[1], args.currentCompany,
                                         args.currentTitle)]
          /\ rpcArgs # <<>>
          /\ (pc = "done" /\ ~StoreFailed) => ~response.isError

\* an AI reply that is not valid JSON was answered from the fallback
C1_Witness ==
    /\ pc = "done"
    /\ tool = "search_experts"
    /\ anthropicKey
    /\ aiReply.kind = "unparseable"
    /\ extraction.outcome = "return" /\ extraction.source = "fallback"
    /\ ~response.isError
    /\ Len(response.records) > 0

\* the tools whose service method queries a store
StoreTools ==
    {"search_interviews", "search_experts", "get_expert_profile",
     "get_expert_interview_history", "get_full_interview"}

\* the response is tagged as an error, carries the store's message and
\* presents no record
TaggedStoreFailure ==
    /\ response.isError
    /\ response.text[1] = "Error: "
    /\ response.text[Len(response.text)] = storeReply.error[1].message
    /\ response.records = <<>>

\* the no-row error of the .single() query behind get_expert_profile
NoRowForProfile ==
    tool = "get_expert_profile" /\ storeReply.error[1].code = "PGRST116"

\* C2 as stated: whenever a store returns an error to one of the five
\* service methods, the handler's response is tagged isError, carries the
\* store's message and contains no result records.
C2_EveryStoreErrorTagged ==
    (pc = "done" /\ tool \in StoreTools /\ StoreFailed) => TaggedStoreFailure

\* C2: whenever a store returns an error to one of the five service
\* methods, the handler's response is tagged isError, carries the store's
\* message and contains no result records - except the no-row error
\* (PGRST116) of getExpertProfile, which becomes a null profile that the
\* handler answers with an untagged "not found" text without records.
C2_StoreErrorTaggedExceptNoRow ==
    (pc = "done" /\ tool \in StoreTools /\ StoreFailed) =>
        IF NoRowForProfile
        THEN /\ ~response.isError
             /\ response.text = <<"Expert with ID ", "not found.">>
             /\ response.records = <<>>
        ELSE TaggedStoreFailure

\* an interview search the store refused was answered with a tagged error
C2_Witness ==
    /\ pc = "done"
    /\ tool = "search_interviews"
    /\ StoreFailed
    /\ response.isError
    /\ response.text =
          <<"Error: ", "Failed to search interviews: ", storeReply.error[1].message>>

\* C3 as stated: over HTTP, a store failure inside a tool handler reaches
\* the caller as the body {success: false, error: message}.
C3_HttpStoreFailureReported ==
    (pc = "done" /\ via = "http" /\ StoreFailed /\ response.isError) =>
        /\ httpResponse.success = FALSE
        /\ httpResponse.error = response.text

\* C4: a search_experts request makes at most one AI call, runs the
\* fallback at most once and only when the AI path returned no batch, and
\* sends exactly one RPC, after the criteria are extracted; a store error
\* ends the request as an error with no second RPC and no further AI call.
C4_OneAICallOneRPC ==
    tool = "search_experts" =>
        /\ aiCalls <= 1
        /\ fallbackRuns <= 1
        /\ storeCalls <= 1
        /\ (~anthropicKey => aiCalls = 0)
        /\ (fallbackRuns = 1) = (Extracted /\ extraction.source = "fallback")
        /\ (fallbackRuns = 1 => AIFailed)
        /\ (storeCalls = 1) = (Extracted /\ rpcArgs # <<>>)
        /\ (storeReply.received => storeCalls = 1 /\ pc = "done")
        /\ (pc = "done" /\ ValidExpertRequest => storeCalls = 1 /\ storeReply.received)
        /\ (StoreFailed => response.isError)

\* after a failed AI call and one fallback run, the single RPC failed and
\* the request ended as an error
C4_Witness ==
    /\ pc = "done"
    /\ tool = "search_experts"
    /\ aiCalls = 1
    /\ aiReply.kind = "fetch_throws"
    /\ fallbackRuns = 1
    /\ storeCalls = 1
    /\ StoreFailed
    /\ response.isError

\* C5 as stated: the variant sent to the RPC never has both its company
\* list and its role keyword list empty.
C5_PrimaryNeverDegenerate ==
    rpcArgs # <<>> =>
        ~(/\ rpcArgs[1].p_companies = Arr(<<>>)
          /\ rpcArgs[1].p_role_keywords = Arr(<<>>))

\* the tokens the generic branch of the fallback looks at
queryTokens(query) == split(query, Whitespace \cup {","})

\* the query has a token that starts with a capital letter
HasCapitalizedToken(query) ==
    \E token \in Range(queryTokens(query)) :
        /\ Len(token) > 0
        /\ token[1] \in DOMAIN LowerCase

\* the query has a token that is one of the recognised role words
HasRoleWord(query) ==
    \E token \in Range(queryTokens(query)) : isRoleWord(token)

\* the default rule applies and neither the explicit filters nor the tokens
\* of the query give a company or a role
ExtractsNothing(in) ==
    /\ fallbackRule(toLowerCase(in.query)) = "default"
    /\ ~Truthy(in.currentCompany)
    /\ ~Truthy(in.currentTitle)
    /\ \A token \in Range(queryTokens(in.query)) :
          /\ ~isCompanyWord(token)
          /\ ~isRoleWord(token)

\* C6: the fallback returns a batch of exactly one variant; when the query
\* has a capitalized token or a recognizable role word that variant does not
\* have both lists empty; in the default rule an extraction that yields
\* nothing gives the broad seniority list VP/Director/Senior/Lead/Manager.
C6_FallbackSingleNonDegenerate ==
    fbOutput # <<>> =>
        LET batch == fbOutput[1]
        IN  /\ Len(batch) = 1
            /\ (HasCapitalizedToken(fbInput.query) \/ HasRoleWord(fbInput.query)) =>
                  ~(/\ batch[1].companies = Arr(<<>>)
                    /\ batch[1].role_keywords = Arr(<<>>))
            /\ ExtractsNothing(fbInput) =>
                  /\ batch[1].companies = Arr(<<>>)
                  /\ batch[1].role_keywords =
                        Arr(<< <<"V","P">>, <<"D","i","r","e","c","t","o","r">>,
                               <<"S","e","n","i","o","r">>, <<"L","e","a","d">>,
                               <<"M","a","n","a","g","e","r">> >>)

\* the fallback ran on a query whose only token is capitalized but too short
\* to be taken for a company, and answered with the broad seniority list
C6_Witness ==
    /\ fbOutput # <<>>
    /\ fbInput.query = <<"H","P">>
    /\ HasCapitalizedToken(fbInput.query)
    /\ ExtractsNothing(fbInput)
    /\ fbOutput[1][1].role_keywords = Arr(BroadRoles)

\* the string handed to sanitization: the reduced topic of the keyword
\* revision, the expanded topic of the semantic revision
beforeSanitization ==
    IF normalizer = "keyword"
    THEN extractKeyTerms(args.questionTopic[1])
    ELSE semanticSearchTerms(anthropicKey, aiReply, args.questionTopic[1])

\* C7: every topic string interpolated into the interview filter contains
\* none of the characters ; ' " \ in both revisions and whatever the AI
\* expander answered, and it is the sanitization of the reduced or expanded
\* topic with nothing applied after it.
C7_FilterTopicSanitized ==
    filterTopic # <<>> =>
        /\ \A i \in 1..Len(filterTopic[1]) :
              filterTopic[1][i] \notin {";", "'", "\"", "\\"}
        /\ Truthy(args.questionTopic)
        /\ filterTopic[1] = sanitize(beforeSanitization)

\* an expansion that contained a backslash went into the filter
C7_Witness ==
    /\ normalizer = "semantic"
    /\ aiReply.kind = "text"
    /\ \E i \in 1..Len(aiReply.text) : aiReply.text[i] = "\\"
    /\ filterTopic # <<>>
    /\ Len(filterTopic[1]) > 0
    /\ storeCalls = 1

\* C8 as stated: for every non-empty raw topic the string used for substring
\* matching is non-empty.
C8_SearchStringNeverEmpty ==
    (tool = "search_interviews" /\ Truthy(args.questionTopic) /\ filterTopic # <<>>) =>
        Len(filterTopic[1]) > 0

\* C9: the RPC gets exactly the companies, role_keywords and
\* employment_status of the first variant of the batch, which is what a
\* batch cut down to its first variant would give, and the profiles
\* returned are the rows the store answered with.
C9_OnlyFirstVariantSubmitted ==
    (tool = "search_experts" /\ rpcArgs # <<>>) =>
        /\ extraction.outcome = "return"
        /\ rpcArgs[1].p_companies = extraction.batch[1].companies
        /\ rpcArgs[1].p_role_keywords = extraction.batch[1].role_keywords
        /\ rpcArgs[1].p_employment_status = extraction.batch[1].employment_status
        /\ rpcArgs[1] = rpcArguments(<<extraction.batch[1]>>, args)
        /\ (pc = "done" /\ ~StoreFailed) =>
              /\ ~response.isError
              /\ response.records = rowsOf(storeReply)

\* an AI batch of several different variants was answered from its first
C9_Witness ==
    /\ pc = "done"
    /\ tool = "search_experts"
    /\ extraction.outcome = "return" /\ extraction.source = "ai"
    /\ Len(extraction.batch) >= 2
    /\ extraction.batch[2] # extraction.batch[1]
    /\ rpcArgs[1].p_companies = extraction.batch[1].companies
    /\ Len(response.records) > 0

\* the number of variants the prompt asks the AI service for
ExpectedVariants == 5

\* C10 as stated: every batch the AI-backed strategy returns has exactly
\* five variants.
C10_AIBatchHasFiveVariants ==
    (Extracted /\ extraction.outcome = "return" /\ extraction.source = "ai") =>
        Len(extraction.batch) = ExpectedVariants

\* the lower-cased query names one of the two Big 5 phrases
MentionsBigFive(query) ==
    \/ includes(toLowerCase(query), <<"b","i","g"," ","5">>)
    \/ includes(toLowerCase(query), <<"e","x","e","c","u","t","i","v","e"," ","s","e","a","r","c","h"," ","f","i","r","m">>)

C12_EmploymentStatusFromQuery ==
    fbOutput # <<>> =>
        LET lower == toLowerCase(fbInput.query)
            status == fbOutput[1][1].employment_status
            roles == fbOutput[1][1].role_keywords.v
        IN  /\ status =
                  IF includes(lower, <<"f","o","r","m","e","r">>) \/ includes(lower, <<"e","x","-">>)
                  THEN "former"
                  ELSE IF includes(lower, <<"c","u","r","r","e","n","t">>) THEN "current" ELSE "any"
            /\ fbInput.query = FormerGoogleScenario =>
                  /\ status = "former"
                  /\ \E i \in 1..Len(roles) : roles[i] = <<"E","n","g","i","n","e","e","r","i","n","g">>
                  /\ \E i \in 1..Len(roles) : roles[i] = <<"V","P">>

\* a query with both "current" and "former" got the status former
C12_Witness ==
    /\ fbOutput # <<>>
    /\ fbInput.query = CurrentOrFormerScenario
    /\ fbOutput[1][1].employment_status = "former"

(***************************************************************************)
(* Interview insights: the averages of getInterviewInsights                *)
(*                                                                         *)
(* A nullable score column is <<>> when null and <<n>> when it holds n.    *)
(* The number a / b is kept as the pair [num |-> a, den |-> b], so that no *)
(* rounding enters; two such numbers are compared by cross-multiplication. *)
(* The ranking of topExperts is not part of the model.                     *)
(***************************************************************************)
\* records in a list handed to the aggregation
MaxRecords == 3

InsightRecords ==
    [credibility_score : Opt({0, 6, 8}), consensus_score : Opt({3}),
     completion_score : Opt({1})]

InsightRecordLists == UNION {[1..n -> InsightRecords] : n \in 0..MaxRecords}

Quotient(a, b) == [num |-> a, den |-> b]

\* variant that keeps every record and reads a null score as 0
scoresNullAsZero(interviews, field) ==
    [k \in 1..Len(interviews) |->
        IF interviews[k][field] = <<>> THEN 0 ELSE interviews[k][field][1]]

\* interviews.filter(i => i.<field> !== null).map(i => i.<field>!)
validScores(interviews, field) ==
    LET valid == SelectSeq(interviews, LAMBDA i : i[field] # <<>>)
    IN  [k \in 1..Len(valid) |-> valid[k][field][1]]

\* scores.reduce((a, b) => a + b, 0)
RECURSIVE reduceSum(_)
reduceSum(scores) ==
    IF Len(scores) = 0 THEN 0 ELSE scores[1] + reduceSum(Tail(scores))

\* scores.length > 0 ? scores.reduce(...) / scores.length : 0
averageScore(scores) ==
    IF Len(scores) > 0 THEN Quotient(reduceSum(scores), Len(scores)) ELSE Quotient(0, 1)

\* getInterviewInsights once searchInterviews has returned `interviews`
getInterviewInsights(interviews) ==
    IF Len(interviews) = 0
    THEN [totalInterviews |-> 0,
          averageConsensusScore |-> Quotient(0, 1),
          averageCredibilityScore |-> Quotient(0, 1),
          averageCompletionScore |-> Quotient(0, 1)]
    ELSE [totalInterviews |-> Len(interviews),
          averageConsensusScore |->
              averageScore(validScores(interviews, "consensus_score")),
          averageCredibilityScore |->
              averageScore(validScores(interviews, "credibility_score")),
          averageCompletionScore |->
              averageScore(validScores(interviews, "completion_score"))]

InitScores ==
    /\ InitRequest
    /\ fbInput = NoFallbackInput
    /\ fbOutput = <<>>
    /\ scInput \in InsightRecordLists
    /\ scOutput = <<>>
    /\ InitSynthesis
    /\ InitLater

RunInsights ==
    /\ scOutput = <<>>
    /\ scOutput' = <<getInterviewInsights(scInput)>>
    /\ UNCHANGED <<requestVars, fbInput, fbOutput, scInput, synthesisVars, laterVars>>

NextScores == RunInsights

SpecScores == InitScores /\ [][NextScores]_vars

\* the positions of the records whose score is not null
NonNull(records, field) == {i \in 1..Len(records) : records[i][field] # <<>>}

\* the sum of the scores at the positions S
RECURSIVE SumAt(_, _, _)
SumAt(records, field, S) ==
    IF S = {} THEN 0
    ELSE LET i == CHOOSE j \in S : TRUE
         IN  records[i][field][1] + SumAt(records, field, S \ {i})

\* the number q is the mean of the non-null scores, 0 when there is none
IsMeanOfNonNull(q, records, field) ==
    /\ q.den > 0
    /\ IF NonNull(records, field) = {}
       THEN q.num = 0
       ELSE q.num * Cardinality(NonNull(records, field)) =
                SumAt(records, field, NonNull(records, field)) * q.den

\* C13: each average of getInterviewInsights is the sum of the non-null
\* scores divided by their number, 0 when there is none: a null score adds
\* neither to the sum nor to the count (credibility 8, null, 6 gives 7) and
\* a score of 0 counts as a score.
C13_AveragesSkipNull ==
    scOutput # <<>> =>
        /\ IsMeanOfNonNull(scOutput[1].averageCredibilityScore, scInput,
                           "credibility_score")
        /\ IsMeanOfNonNull(scOutput[1].averageConsensusScore, scInput, "consensus_score")
        /\ IsMeanOfNonNull(scOutput[1].averageCompletionScore, scInput,
                           "completion_score")
        /\ [k \in 1..Len(scInput) |-> scInput[k].credibility_score] = << <<8>>, <<>>, <<6>> >>
              => scOutput[1].averageCredibilityScore.num =
                     7 * scOutput[1].averageCredibilityScore.den
        /\ [k \in 1..Len(scInput) |-> scInput[k].credibility_score] = << <<0>>, <<8>> >>
              => scOutput[1].averageCredibilityScore.num =
                     4 * scOutput[1].averageCredibilityScore.den

\* the insights of three records with credibility 8, null, 6
C13_Witness ==
    /\ scOutput # <<>>
    /\ Len(scInput) = 3
    /\ scInput[1].credibility_score = <<8>>
    /\ scInput[2].credibility_score = <<>>
    /\ scInput[3].credibility_score = <<6>>
    /\ scOutput[1].averageCredibilityScore = Quotient(14, 2)

(***************************************************************************)
(* synthesize_interviews                                                   *)
(*                                                                         *)
(* The decimal string toFixed(1) gives is kept as its number of tenths.    *)
(***************************************************************************)
SynthesisMinCredibilityDefault == 7

SynthesisLimitDefault == 20

\* `x || d` where x is a number or undefined
orDefault(opt, d) == IF Len(opt) = 1 /\ opt[1] # 0 THEN opt[1] ELSE d

Vendor == <<"v","e","n","d","o","r">>

SynthesisText == <<"K","e","y"," ","f","i","n","d","i","n","g","s">>

\* arguments_ of a synthesize_interviews call: nothing validates them
SynthesisArgs ==
    [query : Opt({<<>>, Vendor}),
     minCredibilityScore : {<<>>, <<0>>, <<8>>},
     limit : {<<>>, <<5>>, <<1000>>}]

\* rows of interview_questions, as far as the handler reads their scores
SynthesisRecords == [credibility_score : Opt({7, 9})]

SynthesisRecordLists == UNION {[1..n -> SynthesisRecords] : n \in 0..MaxRecords}

SynthesisStoreReplies ==
    {[error |-> <<>>, data |-> d] : d \in Opt(SynthesisRecordLists)}
    \cup {[error |-> <<e>>, data |-> <<>>] : e \in StoreErrors}

\* the store applies .gte('credibility_score', min) and .limit(n) of the
\* query it was sent: a null score satisfies no comparison
honoursQuery(reply) ==
    Len(reply.data) = 1 =>
        /\ Len(reply.data[1]) <= queryLimit[1]
        /\ queryMinCredibility # <<>> =>
              \A i \in 1..Len(reply.data[1]) :
                  /\ reply.data[1][i].credibility_score # <<>>
                  /\ reply.data[1][i].credibility_score[1] >= queryMinCredibility[1]

\* outcomes of the fetch of the synthesis: "no_text" is a 2xx body whose
\* content[0] has no text
SynthesisReplies ==
    {[kind |-> k] : k \in {"fetch_throws", "not_ok", "bad_body", "no_text"}}
    \cup {[kind |-> "text", text |-> SynthesisText]}

\* variant of toFixed(1) that cuts the digits after the first decimal
toFixed1Truncating(q) == (10 * q.num) \div q.den

\* Number.prototype.toFixed(1) of the number q >= 0, in tenths: the nearest
\* tenth, the larger one on a tie
toFixed1(q) == (20 * q.num + q.den) \div (2 * q.den)

\* (interviews.reduce((sum, i) => sum + (i.credibility_score || 0), 0)
\*   / interviews.length).toFixed(1)
avgCredibility(interviews) ==
    toFixed1(Quotient(reduceSum([k \in 1..Len(interviews) |->
                                    orDefault(interviews[k].credibility_score, 0)]),
                      Len(interviews)))

\* searchInterviews from the normalised topic to the await of the query,
\* with the filter `if (params.minCredibilityScore) query.gte(...)`
sendSynthesisQuery(a, topic) ==
    /\ filterTopic' = topic
    /\ queryLimit' = <<orDefault(a.limit, SynthesisLimitDefault)>>
    /\ queryMinCredibility' =
          <<orDefault(a.minCredibilityScore, SynthesisMinCredibilityDefault)>>
    /\ storeCalls' = storeCalls + 1
    /\ pc' = "await_synthesis_store"

\* handleInterviewTool('synthesize_interviews') up to its first await on
\* the network
ReceiveSynthesize(a, key, revision) ==
    /\ pc = "idle"
    /\ via' = "mcp"
    /\ tool' = "synthesize_interviews"
    /\ args' = a
    /\ anthropicKey' = key
    /\ normalizer' = revision
    /\ IF ~Truthy(a.query)
       THEN /\ sendSynthesisQuery(a, <<>>)
            /\ UNCHANGED aiCalls
       ELSE IF revision = "keyword"
       THEN /\ sendSynthesisQuery(a, <<keywordFilterTopic(a.query[1])>>)
            /\ UNCHANGED aiCalls
       ELSE IF key
       THEN /\ aiCalls' = aiCalls + 1
            /\ pc' = "await_synthesis_expansion"
            /\ UNCHANGED <<storeCalls, filterTopic, queryLimit, queryMinCredibility>>
       ELSE /\ sendSynthesisQuery(a, <<semanticFilterTopic(FALSE, NoReply, a.query[1])>>)
            /\ UNCHANGED aiCalls
    /\ UNCHANGED <<fallbackRuns, aiReply, extraction, rpcArgs, storeReply, response,
                   httpResponse, prompt, payload, fbInput, fbOutput, scInput, scOutput,
                   laterVars>>

\* the fetch of generateSemanticSearchTerms completes
SynthesisExpansionReply(reply) ==
    /\ pc = "await_synthesis_expansion"
    /\ aiReply' = reply
    /\ sendSynthesisQuery(args, <<semanticFilterTopic(TRUE, reply, args.query[1])>>)
    /\ UNCHANGED <<via, tool, args, anthropicKey, normalizer, aiCalls, fallbackRuns,
                   extraction, rpcArgs, storeReply, response, httpResponse, prompt,
                   payload, fbInput, fbOutput, scInput, scOutput,
                   laterVars>>

\* interviews.map(i => ({expert, insight, credibility: i.credibility_score}))
expertsWithoutKey(interviews) ==
    [k \in 1..Len(interviews) |-> [credibility |-> interviews[k].credibility_score]]

\* expertInsights: interviews.map(interview => ({expert, credentials, question,
\* answer, credibility_score, consensus_score}))
expertInsights(interviews) ==
    [k \in 1..Len(interviews) |-> [credibility_score |-> interviews[k].credibility_score]]

\* expertInsights.map(i => ({expert, insight, credibility: i.credibility_score}))
sourceInterviews(insights) ==
    [k \in 1..Len(insights) |-> [credibility |-> insights[k].credibility_score]]

\* the object serialised when no record matched
noInterviewsPayload == [kind |-> "no_interviews", interviews_analyzed |-> 0]

\* the object serialised when ANTHROPIC_API_KEY is not set
withoutKeyPayload(interviews) ==
    [kind |-> "records", interviews_analyzed |-> Len(interviews),
     experts |-> expertsWithoutKey(interviews)]

\* the object serialised after response.ok: JSON.stringify drops a
\* synthesis that is undefined
synthesisPayload(interviews, text) ==
    [kind |-> "synthesis", interviews_analyzed |-> Len(interviews),
     avg_credibility |-> avgCredibility(interviews), synthesis |-> text,
     source_interviews |-> sourceInterviews(expertInsights(interviews))]

\* the object serialised after the try block was left without a return
unavailablePayload(interviews) ==
    [kind |-> "unavailable", interviews_analyzed |-> Len(interviews),
     experts |-> expertInsights(interviews),
     note |-> "AI synthesis unavailable, showing raw expert insights"]

\* what synthesisPrompt interpolates from the records
synthesisPrompt(interviews) ==
    [average |-> avgCredibility(interviews), experts |-> expertInsights(interviews)]

\* the store answers the query of searchInterviews; the handler goes on to
\* its return or to the fetch of the synthesis
SynthesisStoreReply(reply) ==
    /\ pc = "await_synthesis_store"
    /\ honoursQuery(reply)
    /\ storeReply' = received(reply)
    /\ LET r == searchInterviewsResult(reply) IN
       IF r.threw
       THEN /\ finish("mcp", errorResponse(r.message))
            /\ UNCHANGED <<aiCalls, prompt, payload>>
       ELSE IF Len(r.rows) = 0
       THEN /\ payload' = noInterviewsPayload
            /\ finish("mcp", jsonResponse(<<"No expert interviews found on this topic.">>, <<>>))
            /\ UNCHANGED <<aiCalls, prompt>>
       ELSE IF ~anthropicKey
       THEN /\ payload' = withoutKeyPayload(r.rows)
            /\ finish("mcp", jsonResponse(<<>>, payload'.experts))
            /\ UNCHANGED <<aiCalls, prompt>>
       ELSE /\ prompt' = <<synthesisPrompt(r.rows)>>
            /\ aiCalls' = aiCalls + 1
            /\ pc' = "await_synthesis"
            /\ UNCHANGED <<response, httpResponse, payload>>
    /\ UNCHANGED <<via, tool, args, anthropicKey, normalizer, fallbackRuns, storeCalls,
                   aiReply, extraction, rpcArgs, filterTopic, queryLimit,
                   queryMinCredibility, fbInput, fbOutput, scInput, scOutput,
                   laterVars>>

\* variant of the try block without its catch: what fetch or response.json()
\* throws leaves the case
synthesisTryNoCatch(reply) ==
    IF reply.kind \in {"text", "no_text"} THEN "return"
    ELSE IF reply.kind = "not_ok" THEN "fallthrough"
    ELSE "throw"

\* how the try block around the fetch of the synthesis is left: by its
\* return inside `if (response.ok)`, or past its end (status not ok, or the
\* catch that logs what fetch, response.json() or content[0] threw)
synthesisTry(reply) ==
    IF reply.kind \in {"text", "no_text"} THEN "return" ELSE "fallthrough"

\* the fetch of the synthesis completes: the try block returns the synthesis
\* or is left for the return after it; what leaves the case as an exception
\* is answered by the catch block of handleInterviewTool
SynthesisReply(reply) ==
    /\ pc = "await_synthesis"
    /\ aiReply' = reply
    /\ LET interviews == rowsOf(storeReply)
           left == synthesisTry(reply)
       IN
       IF left = "return"
       THEN /\ payload' = synthesisPayload(interviews,
                                          IF reply.kind = "text" THEN <<reply.text>> ELSE <<>>)
            /\ finish("mcp", jsonResponse(<<>>, payload'.source_interviews))
       ELSE IF left = "fallthrough"
       THEN /\ payload' = unavailablePayload(interviews)
            /\ finish("mcp", jsonResponse(<<>>, payload'.experts))
       ELSE /\ finish("mcp", errorResponse(<<"fetch failed">>))
            /\ UNCHANGED payload
    /\ UNCHANGED <<via, tool, args, anthropicKey, normalizer, aiCalls, fallbackRuns,
                   storeCalls, extraction, rpcArgs, filterTopic, queryLimit, storeReply,
                   queryMinCredibility, prompt, fbInput, fbOutput, scInput, scOutput,
                   laterVars>>

\* the next synthesize_interviews call arrives
CallSynthesize ==
    /\ pc = "idle"
    /\ \E a \in SynthesisArgs, key \in BOOLEAN, revision \in {"keyword", "semantic"} :
          ReceiveSynthesize(a, key, revision)

\* the request has been answered and nothing of it is kept
ResetSynthesis ==
    /\ pc = "done"
    /\ pc' = "idle"
    /\ via' = "mcp"
    /\ tool' = "none"
    /\ args' = NoArgs
    /\ anthropicKey' = FALSE
    /\ normalizer' = "semantic"
    /\ aiCalls' = 0
    /\ fallbackRuns' = 0
    /\ storeCalls' = 0
    /\ aiReply' = NoReply
    /\ extraction' = NoExtraction
    /\ rpcArgs' = <<>>
    /\ filterTopic' = <<>>
    /\ queryLimit' = <<>>
    /\ storeReply' = NoStoreReply
    /\ response' = NoResponse
    /\ httpResponse' = NoHttp
    /\ queryMinCredibility' = <<>>
    /\ prompt' = <<>>
    /\ payload' = NoPayload
    /\ UNCHANGED <<fbInput, fbOutput, scInput, scOutput,
                   laterVars>>

NextSynthesis ==
    \/ CallSynthesize
    \/ \E reply \in ExpansionReplies : SynthesisExpansionReply(reply)
    \/ \E reply \in SynthesisStoreReplies : SynthesisStoreReply(reply)
    \/ \E reply \in SynthesisReplies : SynthesisReply(reply)
    \/ ResetSynthesis

SpecSynthesis == Init /\ [][NextSynthesis]_vars

\* the handler has computed the average of the matched records
Synthesized == tool = "synthesize_interviews" /\ prompt # <<>>

\* the matched records of the request
analysed == rowsOf(storeReply)

\* the number of tenths t is the nearest tenth to the mean of the non-null
\* credibility scores of the records, the larger one on a tie
IsRoundedMeanOfNonNull(t, records) ==
    LET idx == NonNull(records, "credibility_score")
        n == Cardinality(idx)
        s == SumAt(records, "credibility_score", idx)
    IN  /\ n > 0
        /\ 2 * (10 * s - t * n) <= n
        /\ 2 * (t * n - 10 * s) < n

\* the number of tenths t is exactly the mean of the non-null credibility
\* scores of the records
IsExactMeanOfNonNull(t, records) ==
    LET idx == NonNull(records, "credibility_score")
    IN  /\ idx # {}
        /\ t * Cardinality(idx) = 10 * SumAt(records, "credibility_score", idx)

expansionCalls ==
    IF normalizer = "semantic" /\ anthropicKey /\ Truthy(args.query) THEN 1 ELSE 0

\* the calls the handler makes for the synthesis itself
synthesisCalls == aiCalls - expansionCalls

\* the store answered the synthesize_interviews request with matching records
RecordsMatched ==
    /\ tool = "synthesize_interviews"
    /\ pc = "done"
    /\ storeReply.received
    /\ ~StoreFailed
    /\ Len(analysed) > 0

\* the synthesis could not be had: no key, or the fetch of the synthesis
\* threw, answered outside 2xx or with a body that is not the expected JSON
SynthesisFailed ==
    \/ ~anthropicKey
    \/ Synthesized /\ aiReply.kind \in {"fetch_throws", "not_ok", "bad_body"}

\* the response presents every matched record with its credibility
PresentsMatchedRecords ==
    /\ ~response.isError
    /\ Len(response.records) = Len(analysed)
    /\ \A i \in 1..Len(analysed) :
          \/ response.records[i] = [credibility |-> analysed[i].credibility_score]
          \/ response.records[i] = [credibility_score |-> analysed[i].credibility_score]

\* the serialised object carries a synthesis text
HasSynthesisText == payload.kind = "synthesis" /\ payload.synthesis # <<>>

\* the part of C15 about the answer: with matched records the response is
\* never an error and presents them; after an AI failure without synthesis
\* text; a synthesis text only after a successful call
AIFailureKeepsRecords ==
    /\ RecordsMatched => PresentsMatchedRecords
    /\ (RecordsMatched /\ SynthesisFailed) =>
          /\ payload.kind \in {"records", "unavailable"}
          /\ ~HasSynthesisText
    /\ (tool = "synthesize_interviews" /\ HasSynthesisText) =>
          /\ anthropicKey
          /\ aiReply = [kind |-> "text", text |-> payload.synthesis[1]]

\* C15 as stated: with at least one matching record the response is never
\* an error because of the AI backend and still contains the matched records
\* without synthesis text; the synthesis text is present only when the AI
\* call succeeded; the AI is called at most once per request and never when
\* no record matched.
C15_AtMostOneAICall ==
    /\ AIFailureKeepsRecords
    /\ tool = "synthesize_interviews" =>
          /\ aiCalls <= 1
          /\ (aiCalls > 0 => storeReply.received /\ Len(analysed) > 0)

\* C15: with at least one matching record the response is never an error
\* because of the AI backend: for a missing key, a fetch exception, a non-OK
\* status or a malformed body it still presents the matched records, without
\* synthesis text; the synthesis text is present only when the synthesis
\* call succeeded; the synthesis call is made at most once per request and
\* never when no record matched, and the only other AI call of the request
\* is the one topic expansion searchInterviews makes before its store query
\* when a key is set and the query is not empty.
C15_AtMostOneSynthesisCall ==
    /\ AIFailureKeepsRecords
    /\ tool = "synthesize_interviews" =>
          /\ synthesisCalls \in {0, 1}
          /\ (synthesisCalls = 1) = Synthesized
          /\ (Synthesized => anthropicKey /\ storeReply.received /\ Len(analysed) > 0)
          /\ (pc = "await_synthesis_expansion" => storeCalls = 0)
          /\ storeCalls <= 1

\* two matched records were answered without synthesis after the AI service
\* refused the synthesis call
C15_Witness ==
    /\ RecordsMatched
    /\ Synthesized
    /\ aiReply.kind = "not_ok"
    /\ payload.kind = "unavailable"
    /\ Len(response.records) = 2
    /\ ~response.isError

\* a synthesize_interviews request without its query string
LacksQuery == tool = "synthesize_interviews" /\ args.query = <<>>

\* C16 as stated, for the entry point synthesize_interviews: a request that
\* lacks its required query string is answered with an error, and no AI call
\* and no store call is issued for it.
C16_MissingQueryRejected ==
    LacksQuery =>
        /\ aiCalls = 0
        /\ storeCalls = 0
        /\ (pc = "done" => response.isError)

\* the tools whose handler calls searchInterviews
InterviewSearchTools == {"search_interviews", "synthesize_interviews"}

\* C17 as stated: every query searchInterviews sends to the interview store
\* carries a result limit between 1 and 100.
C17_QueryLimitBounded ==
    (tool \in InterviewSearchTools /\ storeCalls > 0) =>
        /\ queryLimit # <<>>
        /\ queryLimit[1] \in 1..InterviewLimitMax

(***************************************************************************)
(* The tools that notify the team over the Slack webhook                   *)
(***************************************************************************)
DescriptionMin == 10

MaxQuestions == 2

MaxExpertIds == 2

\* the tools of handleRequestTool that await a notification
GuideTools == {"create_interview_guide", "launch_interview_request"}

NotifyTools == GuideTools \cup {"request_expert_sourcing", "request_expert_interview"}

NotifyTitles == {<<>>, <<"P","r","i","c","i","n","g">>}

NotifyDescriptions == {<<"s","h","o","r","t">>, <<"v","e","n","d","o","r"," ","p","r","i","c","i","n","g">>}

\* the arguments of a notifying tool, as far as the handlers read them; the
\* profiles found for the ids of request_expert_interview come from the
\* people store
NotifyArgs(t) ==
    IF t \in GuideTools
    THEN [title : NotifyTitles, description : NotifyDescriptions, questions : 0..MaxQuestions,
          requestedBy : {<<>>, <<"analyst">>}]
    ELSE IF t = "request_expert_sourcing"
    THEN [title : NotifyTitles, description : NotifyDescriptions,
          urgency : {"medium", "high"}, requestedBy : {<<>>, <<"analyst">>}]
    ELSE {a \in [expertIds : 0..MaxExpertIds, found : 0..MaxExpertIds] :
             a.found <= a.expertIds}

\* InterviewGuideSchema.parse / ExpertRequestSchema.parse accept the arguments
NotifySchemaOk(t, a) ==
    /\ Len(a.title) >= 1
    /\ Len(a.description) >= DescriptionMin
    /\ (t \in GuideTools => a.questions >= 1)

\* outcomes of the POST to the webhook
SlackReplies == {"ok", "not_ok", "fetch_throws"}

\* SlackService.sendNotification: resolves when the webhook answered 2xx,
\* throws 'Failed to send Slack notification: ...' otherwise
sendNotification(reply) ==
    IF reply = "ok" THEN [threw |-> FALSE]
    ELSE [threw |-> TRUE,
          message |-> <<"Failed to send Slack notification: ",
                        IF reply = "not_ok" THEN "Slack webhook failed: " ELSE "fetch failed">>]

\* the result each tool returns after its notification resolved
notifiedResponse(t, a) ==
    IF t = "create_interview_guide"
    THEN jsonResponse(<<"Interview guide created and team notified via Slack">>, <<>>)
    ELSE IF t = "launch_interview_request"
    THEN jsonResponse(<<"Complete interview request launched and team notified via Slack">>, <<>>)
    ELSE IF t = "request_expert_sourcing"
    THEN jsonResponse(<<"Expert sourcing request created and team notified via Slack">>, <<>>)
    ELSE textResponse(<<"Expert interview request submitted!">>, <<>>)

\* what the caller gets when the notification threw: the catch block of
\* handleRequestTool, or the catch (slackError) of request_expert_interview
notifyFailedResponse(t, message) ==
    IF t = "request_expert_interview"
    THEN [thrown |-> FALSE, isError |-> TRUE, json |-> FALSE,
          text |-> <<"Interview request created but Slack notification failed: ">>
                     \o message,
          records |-> <<>>]
    ELSE errorResponse(message)

\* a notifying tool up to its await of the Slack service: the arguments are
\* parsed (or the id list tested) first
ReceiveNotify(t, a) ==
    /\ pc = "idle"
    /\ via' = "mcp"
    /\ tool' = t
    /\ args' = a
    /\ IF t = "request_expert_interview"
       THEN IF a.expertIds = 0
            THEN finish("mcp", [NoResponse EXCEPT !.thrown = TRUE,
                                   !.text = <<"At least one expert ID is required">>])
            ELSE pc' = "await_slack" /\ UNCHANGED <<response, httpResponse>>
       ELSE IF ~NotifySchemaOk(t, a)
            THEN finish("mcp", errorResponse(<<"ZodError">>))
            ELSE pc' = "await_slack" /\ UNCHANGED <<response, httpResponse>>
    /\ UNCHANGED <<anthropicKey, normalizer, aiCalls, fallbackRuns, storeCalls, aiReply,
                   extraction, rpcArgs, filterTopic, queryLimit, storeReply, fbInput,
                   fbOutput, scInput, scOutput, synthesisVars, slackReply,
                   concurrentVars, rpcVars,
                   pureVars, interviewVars>>

CallNotify ==
    /\ pc = "idle"
    /\ \E t \in NotifyTools : \E a \in NotifyArgs(t) : ReceiveNotify(t, a)

\* the POST to the webhook completes and the tool returns
SlackReply(reply) ==
    /\ pc = "await_slack"
    /\ slackReply' = reply
    /\ LET sent == sendNotification(reply) IN
       IF sent.threw
       THEN finish("mcp", notifyFailedResponse(tool, sent.message))
       ELSE finish("mcp", notifiedResponse(tool, args))
    /\ UNCHANGED <<via, tool, args, anthropicKey, normalizer, aiCalls, fallbackRuns,
                   storeCalls, aiReply, extraction, rpcArgs, filterTopic, queryLimit,
                   storeReply, fbInput, fbOutput, scInput, scOutput, synthesisVars,
                   concurrentVars, rpcVars,
                   pureVars, interviewVars>>

\* the request has been answered
ResetNotify ==
    /\ pc = "done"
    /\ pc' = "idle"
    /\ tool' = "none"
    /\ args' = NoArgs
    /\ response' = NoResponse
    /\ slackReply' = "none"
    /\ UNCHANGED <<via, anthropicKey, normalizer, aiCalls, fallbackRuns, storeCalls,
                   aiReply, extraction, rpcArgs, filterTopic, queryLimit, storeReply,
                   httpResponse, fbInput, fbOutput, scInput, scOutput, synthesisVars,
                   concurrentVars, rpcVars,
                   pureVars, interviewVars>>

NextNotify ==
    \/ CallNotify
    \/ \E reply \in SlackReplies : SlackReply(reply)
    \/ ResetNotify

SpecNotify == Init /\ [][NextNotify]_vars

\* the Slack call of the request in progress failed
SlackFailed == tool \in NotifyTools /\ slackReply \in {"not_ok", "fetch_throws"}

\* C18 as stated: when the Slack webhook fails during one of the notifying
\* tools, the caller still receives the same non-error result as when Slack
\* succeeds.
C18_SlackFailureSameResult ==
    (pc = "done" /\ SlackFailed) =>
        /\ ~response.isError
        /\ response = notifiedResponse(tool, args)

(***************************************************************************)
(* search_interviews requests in progress at the same time                 *)
(*                                                                         *)
(* An invocation runs from one await to the next without interruption;     *)
(* between two awaits any other invocation may run.  Its parameters and    *)
(* locals live in its own activation record.                               *)
(***************************************************************************)
Pricing == <<"p","r","i","c","i","n","g">>

ConcurrentArgs == [questionTopic : {<<>>, <<Vendor>>, <<Pricing>>}, limit : {<<>>, <<101>>}]

\* variant in which params and searchTerms are module-level variables
frameShared(r) == "first"

\* the activation record of the invocation r of searchInterviews
frameOf(r) == r

\* params as the invocation reads it from its activation record
paramsIn(frame) ==
    IF frame.params = <<>> THEN [questionTopic |-> <<>>, limit |-> <<>>] ELSE frame.params[1]

\* a string local or property as read, "" standing for one never assigned
stringIn(opt) == IF opt = <<>> THEN <<>> ELSE opt[1]

\* the query searchInterviews sends for the parameters and search terms
interviewQuery(params, terms) ==
    [topic |-> terms, limit |-> parsedLimit(params, InterviewLimitDefault)]

\* handleInterviewTool('search_interviews') for request r, up to its first
\* await: InterviewSearchSchema.parse, then searchInterviews until it awaits
\* the semantic expansion or the query
Arrive(r, a) ==
    /\ calls[r].pc = "idle"
    /\ IF ~InterviewSearchSchemaOk(a)
       THEN /\ calls' = [calls EXCEPT ![r].pc = "done", ![r].params = <<a>>,
                                        ![r].response = errorResponse(<<"ZodError">>)]
            /\ UNCHANGED frames
       ELSE IF ~Truthy(a.questionTopic)
       THEN /\ calls' = [calls EXCEPT ![r].pc = "await_store", ![r].params = <<a>>,
                                        ![r].sent = <<interviewQuery(a, <<>>)>>]
            /\ frames' = [frames EXCEPT ![frameOf(r)] = [params |-> <<a>>, searchTerms |-> <<>>]]
       ELSE IF process.anthropicKey
       THEN /\ calls' = [calls EXCEPT ![r].pc = "await_expansion", ![r].params = <<a>>]
            /\ frames' = [frames EXCEPT ![frameOf(r)] =
                              [params |-> <<a>>, searchTerms |-> a.questionTopic]]
       ELSE /\ calls' = [calls EXCEPT ![r].pc = "await_store", ![r].params = <<a>>,
                              ![r].sent = <<interviewQuery(a,
                                  <<sanitize(generateSemanticSearchTerms(FALSE, NoReply,
                                                                         a.questionTopic[1]))>>)>>]
            /\ frames' = [frames EXCEPT ![frameOf(r)] =
                              [params |-> <<a>>, searchTerms |-> a.questionTopic]]
    /\ UNCHANGED <<requestVars, fbInput, fbOutput, scInput, scOutput, synthesisVars,
                   notifyVars, process, rpcVars,
                   pureVars, interviewVars>>

\* the fetch of generateSemanticSearchTerms completes for request r:
\* searchInterviews resumes with its params and searchTerms and sends the query
ExpansionArrives(r, reply) ==
    /\ calls[r].pc = "await_expansion"
    /\ LET frame == frames[frameOf(r)]
           semanticTerms == generateSemanticSearchTerms(TRUE, reply,
                                stringIn(paramsIn(frame).questionTopic))
           searchTerms == IF Len(semanticTerms) > 0 THEN semanticTerms
                          ELSE stringIn(frame.searchTerms)
       IN  /\ frames' = [frames EXCEPT ![frameOf(r)].searchTerms = <<searchTerms>>]
           /\ calls' = [calls EXCEPT ![r].pc = "await_store", ![r].expansion = reply,
                             ![r].sent = <<interviewQuery(paramsIn(frame),
                                                          <<sanitize(searchTerms)>>)>>]
    /\ UNCHANGED <<requestVars, fbInput, fbOutput, scInput, scOutput, synthesisVars,
                   notifyVars, process, rpcVars,
                   pureVars, interviewVars>>

\* the interview store answers the query of request r and the handler returns
StoreAnswers(r, reply) ==
    /\ calls[r].pc = "await_store"
    /\ calls' = [calls EXCEPT ![r].pc = "done", ![r].reply = received(reply),
                      ![r].response = searchInterviewsResponse(searchInterviewsResult(reply))]
    /\ UNCHANGED <<requestVars, fbInput, fbOutput, scInput, scOutput, synthesisVars,
                   notifyVars, frames, process, rpcVars,
                   pureVars, interviewVars>>

\* the response of request r has been delivered; its activation record is gone
Complete(r) ==
    /\ calls[r].pc = "done"
    /\ calls' = [calls EXCEPT ![r] = NoCall]
    /\ frames' = [frames EXCEPT ![frameOf(r)] = NoFrame]
    /\ UNCHANGED <<requestVars, fbInput, fbOutput, scInput, scOutput, synthesisVars,
                   notifyVars, process, rpcVars,
                   pureVars, interviewVars>>

\* the state after the modules are loaded: getEnvironment() has run and the
\* SupabaseService instance holds its two clients
InitStartUp ==
    /\ InitRequest
    /\ fbInput = NoFallbackInput
    /\ fbOutput = <<>>
    /\ scInput = <<>>
    /\ scOutput = <<>>
    /\ InitSynthesis
    /\ slackReply = "none"
    /\ calls = [r \in Requests |-> NoCall]
    /\ frames = [r \in Requests |-> NoFrame]
    /\ process \in {StartUp(key) : key \in BOOLEAN}
    /\ InitRpc
    /\ InitPure
    /\ InitInterview

NextConcurrent ==
    \E r \in Requests :
        \/ \E a \in ConcurrentArgs : Arrive(r, a)
        \/ \E reply \in ExpansionReplies : ExpansionArrives(r, reply)
        \/ \E reply \in ListReplies : StoreAnswers(r, reply)
        \/ Complete(r)

SpecConcurrent == InitStartUp /\ [][NextConcurrent]_vars

\* the query a request with arguments a sends when it is processed alone
\* and the AI service answers its expansion with the given reply
aloneQuery(a, key, expansion) ==
    IF ~Truthy(a.questionTopic)
    THEN interviewQuery(a, <<>>)
    ELSE interviewQuery(a, <<semanticFilterTopic(key, expansion, a.questionTopic[1])>>)

\* the response a request with arguments a gets when it is processed alone
\* and the store answers its query with the given reply
aloneResponse(a, reply) ==
    IF ~InterviewSearchSchemaOk(a) THEN errorResponse(<<"ZodError">>)
    ELSE searchInterviewsResponse(searchInterviewsResult(reply))

\* what request r has sent and answered so far is what it would have sent
\* and answered alone, given the same replies
AsIfAlone(r) ==
    LET call == calls[r] IN
    /\ call.sent # <<>> =>
          call.sent[1] = aloneQuery(call.params[1], process.anthropicKey, call.expansion)
    /\ call.pc = "done" => call.response = aloneResponse(call.params[1], call.reply)
    /\ (call.pc = "done" /\ InterviewSearchSchemaOk(call.params[1])) =>
          call.sent # <<>> /\ call.reply.received

\* C19: for any interleaving of the requests in progress, each request
\* sends the query and gets the response it would send and get if it were
\* processed alone with the same replies of the AI service and the store,
\* and the process-lifetime state (configuration and the two store client
\* handles) is never modified after start-up.
C19_RequestsIndependent ==
    /\ [](\A r \in Requests : AsIfAlone(r))
    /\ [][process' = process]_vars

\* two requests with different topics are in progress at once: the first
\* resumed after its expansion while the second awaits its own
C19_Witness ==
    /\ calls["first"].pc = "await_store"
    /\ calls["first"].expansion = [kind |-> "text", text |-> <<" ">>]
    /\ calls["first"].sent[1].topic = <<Vendor>>
    /\ calls["second"].pc = "await_expansion"
    /\ calls["second"].params[1].questionTopic = <<Pricing>>

(***************************************************************************)
(* POST /mcp: the JSON-RPC endpoint of the HTTP server                     *)
(***************************************************************************)
\* the names the switch of tools/call knows
McpToolNames ==
    {"search_insights", "search_experts", "generate_questions", "fetch_profile",
     "get_full_interview"}

RpcMethods == {"initialize", "tools/list", "tools/call", "ping", "resources/list"}

\* params of a tools/call: the name and, of the arguments, the identifier
\* some cases require
RpcParams ==
    [name : McpToolNames \cup {"unknown_tool"}, identifier : {<<>>, <<"m-1">>}]

\* request bodies: the id is absent (<<>>) in a notification
RpcRequests == [id : {<<>>, <<1>>, <<2>>}, method : RpcMethods, params : Opt(RpcParams)]

\* how the awaited tool handler ends: with a result, with a result tagged
\* isError, or (JSON.parse of a search result in fetch_profile) by throwing
ToolOutcomes == {"result", "error_result", "throws"}

\* res.json({jsonrpc: '2.0', id, result})
rpcResult(id, result) ==
    [status |-> 200, id |-> id, kind |-> "result", code |-> 0, result |-> result]

\* res.json({jsonrpc: '2.0', id, error: {code, message}})
rpcError(id, code) ==
    [status |-> 200, id |-> id, kind |-> "error", code |-> code, result |-> "none"]

\* the outer catch: res.status(500).json({jsonrpc: '2.0', error: {code: -32603,
\* message: 'Internal error'}}), which has no id
rpcInternalError ==
    [status |-> 500, id |-> <<>>, kind |-> "error", code |-> -32603, result |-> "none"]

\* the cases of the switch that throw before calling a handler
throwsBeforeHandler(p) ==
    \/ p.name \notin McpToolNames
    \/ p.name \in {"get_full_interview", "fetch_profile"} /\ p.identifier = <<>>

\* app.post('/mcp') up to its response or to the await of a tool handler
ReceiveRpc(req) ==
    /\ pc = "idle"
    /\ rpcRequest' = req
    /\ IF req.method = "initialize"
       THEN /\ rpcResponses' = <<rpcResult(req.id, "serverInfo")>>
            /\ initialized' = TRUE
            /\ pc' = "done"
       ELSE IF req.method = "tools/list"
       THEN /\ rpcResponses' = <<rpcResult(req.id, "tools")>>
            /\ pc' = "done"
            /\ UNCHANGED initialized
       ELSE IF req.method = "tools/call"
       THEN /\ IF req.params = <<>>
               THEN rpcResponses' = <<rpcInternalError>> /\ pc' = "done"
               ELSE IF throwsBeforeHandler(req.params[1])
               THEN rpcResponses' = <<rpcError(req.id, -1)>> /\ pc' = "done"
               ELSE rpcResponses' = <<>> /\ pc' = "await_tool"
            /\ UNCHANGED initialized
       ELSE /\ rpcResponses' = <<rpcError(req.id, -32601)>>
            /\ pc' = "done"
            /\ UNCHANGED initialized
    /\ UNCHANGED <<via, tool, args, anthropicKey, normalizer, aiCalls, fallbackRuns,
                   storeCalls, aiReply, extraction, rpcArgs, filterTopic, queryLimit,
                   storeReply, response, httpResponse, fbInput, fbOutput, scInput,
                   scOutput, synthesisVars, notifyVars, concurrentVars,
                   pureVars, interviewVars>>

CallRpc ==
    /\ pc = "idle"
    /\ \E req \in RpcRequests : ReceiveRpc(req)

\* the awaited tool handler ends and the endpoint answers
ToolReturns(outcome) ==
    /\ pc = "await_tool"
    /\ outcome = "throws" => rpcRequest.params[1].name = "fetch_profile"
    /\ rpcResponses' =
          Append(rpcResponses,
                 IF outcome = "throws" THEN rpcError(rpcRequest.id, -1)
                 ELSE rpcResult(rpcRequest.id, outcome))
    /\ pc' = "done"
    /\ UNCHANGED <<via, tool, args, anthropicKey, normalizer, aiCalls, fallbackRuns,
                   storeCalls, aiReply, extraction, rpcArgs, filterTopic, queryLimit,
                   storeReply, response, httpResponse, fbInput, fbOutput, scInput,
                   scOutput, synthesisVars, notifyVars, concurrentVars, rpcRequest,
                   initialized,
                   pureVars, interviewVars>>

\* the next request of the sequence may arrive
ResetRpc ==
    /\ pc = "done"
    /\ pc' = "idle"
    /\ rpcRequest' = NoRpc
    /\ rpcResponses' = <<>>
    /\ UNCHANGED <<via, tool, args, anthropicKey, normalizer, aiCalls, fallbackRuns,
                   storeCalls, aiReply, extraction, rpcArgs, filterTopic, queryLimit,
                   storeReply, response, httpResponse, fbInput, fbOutput, scInput,
                   scOutput, synthesisVars, notifyVars, concurrentVars, initialized,
                   pureVars, interviewVars>>

NextRpc ==
    \/ CallRpc
    \/ \E outcome \in ToolOutcomes : ToolReturns(outcome)
    \/ ResetRpc

SpecRpc == Init /\ [][NextRpc]_vars

\* the answer to the request in progress has the shape its method calls for
AnswerFitsMethod(answer) ==
    IF rpcRequest.method = "initialize"
    THEN answer.kind = "result" /\ answer.result = "serverInfo"
    ELSE IF rpcRequest.method = "tools/list"
    THEN answer.kind = "result" /\ answer.result = "tools"
    ELSE IF rpcRequest.method = "tools/call"
    THEN /\ answer.kind \in {"result", "error"}
         /\ (rpcRequest.params # <<>> /\ rpcRequest.params[1].name \notin McpToolNames)
               => answer.kind = "error"
    ELSE answer.kind = "error" /\ answer.code = -32601

\* C20 as stated: each POST /mcp request receives exactly one JSON-RPC
\* response of the shape its method calls for (initialize: protocolVersion
\* and serverInfo; tools/list: the tool list; tools/call: a result or an
\* error, an error for an unknown tool; any other method: error -32601),
\* the response carries the request's id, and no answer waits for a prior
\* initialize.
C20_OneResponseWithRequestId ==
    /\ Len(rpcResponses) <= 1
    /\ pc = "done" =>
          /\ Len(rpcResponses) = 1
          /\ AnswerFitsMethod(rpcResponses[1])
          /\ rpcResponses[1].id = rpcRequest.id

(***************************************************************************)
(* POST /mcp tools/call fetch_profile                                      *)
(*                                                                         *)
(* via = "fetch_profile" marks a handler called by this case.              *)
(***************************************************************************)
RudyAlanis == <<"R","u","d","y"," ","A","l","a","n","i","s">>

FetchProfileArgs == [expertId : {<<>>, <<"e-1">>}, expertName : {<<>>, <<RudyAlanis>>, <<Acme>>}]

\* JSON.parse of the text a handler returned: only a response the handler
\* built with JSON.stringify parses
parseJson(resp) ==
    IF resp.json /\ ~resp.isError THEN [threw |-> FALSE, records |-> resp.records]
    ELSE [threw |-> TRUE]

\* the case up to the await of its first handler call: get_expert_profile
\* for an id, search_experts {query: expertName, limit: 1} for a name
ReceiveFetchProfile(p, key) ==
    IF p.expertId # <<>>
    THEN ReceiveGetExpertProfile("fetch_profile", [t |-> "string", numeric |-> FALSE], key)
    ELSE /\ p.expertName # <<>>
         /\ ReceiveSearchExperts("fetch_profile",
                [query |-> p.expertName, currentCompany |-> <<>>, currentTitle |-> <<>>,
                 limit |-> <<1>>], key)

CallFetchProfile ==
    /\ pc = "idle"
    /\ \E p \in FetchProfileArgs, key \in BOOLEAN : ReceiveFetchProfile(p, key)

\* neither expertId nor expertName: the case throws and the inner catch answers
RejectFetchProfile ==
    /\ pc = "idle"
    /\ pc' = "answered"
    /\ via' = "fetch_profile"
    /\ rpcResponses' = <<rpcError(rpcRequest.id, -1)>>
    /\ UNCHANGED <<tool, args, anthropicKey, normalizer, aiCalls, fallbackRuns, storeCalls,
                   aiReply, extraction, rpcArgs, filterTopic, queryLimit, storeReply,
                   response, httpResponse, fbInput, fbOutput, scInput, scOutput,
                   synthesisVars, notifyVars, concurrentVars, rpcRequest, initialized,
                   pureVars, interviewVars>>

\* the awaited handler has returned: the profile result is sent, or the
\* search result is parsed and its first expert looked up
FetchProfileContinue ==
    /\ pc = "done"
    /\ via = "fetch_profile"
    /\ IF tool = "get_expert_profile"
       THEN /\ rpcResponses' = <<rpcResult(rpcRequest.id, response)>>
            /\ pc' = "answered"
            /\ UNCHANGED <<tool, storeCalls, response>>
       ELSE LET searchData == parseJson(response) IN
            IF searchData.threw
            THEN /\ rpcResponses' = <<rpcError(rpcRequest.id, -1)>>
                 /\ pc' = "answered"
                 /\ UNCHANGED <<tool, storeCalls, response>>
            ELSE IF Len(searchData.records) > 0
            THEN /\ tool' = "get_expert_profile"
                 /\ storeCalls' = storeCalls + 1
                 /\ pc' = "await_store"
                 /\ UNCHANGED <<rpcResponses, response>>
            ELSE /\ response' = textResponse(<<"Expert ", "not found.">>, <<>>)
                 /\ rpcResponses' = <<rpcResult(rpcRequest.id, response')>>
                 /\ pc' = "answered"
                 /\ UNCHANGED <<tool, storeCalls>>
    /\ UNCHANGED <<via, args, anthropicKey, normalizer, aiCalls, fallbackRuns, aiReply,
                   extraction, rpcArgs, filterTopic, queryLimit, storeReply, httpResponse,
                   fbInput, fbOutput, scInput, scOutput, synthesisVars, notifyVars,
                   concurrentVars, rpcRequest, initialized,
                   pureVars, interviewVars>>

\* the endpoint has answered
ResetFetchProfile ==
    /\ pc = "answered"
    /\ pc' = "idle"
    /\ via' = "mcp"
    /\ tool' = "none"
    /\ args' = NoArgs
    /\ anthropicKey' = FALSE
    /\ normalizer' = "semantic"
    /\ aiCalls' = 0
    /\ fallbackRuns' = 0
    /\ storeCalls' = 0
    /\ aiReply' = NoReply
    /\ extraction' = NoExtraction
    /\ rpcArgs' = <<>>
    /\ filterTopic' = <<>>
    /\ queryLimit' = <<>>
    /\ storeReply' = NoStoreReply
    /\ response' = NoResponse
    /\ httpResponse' = NoHttp
    /\ rpcResponses' = <<>>
    /\ UNCHANGED <<fbInput, fbOutput, scInput, scOutput, synthesisVars, notifyVars,
                   concurrentVars, rpcRequest, initialized,
                   pureVars, interviewVars>>

NextFetchProfile ==
    \/ CallFetchProfile
    \/ RejectFetchProfile
    \/ \E reply \in AIReplies : AIReply(reply)
    \/ \E reply \in ListReplies : ExpertsReply(reply)
    \/ \E reply \in SingleReplies : LookupReply(reply)
    \/ FetchProfileContinue
    \/ ResetFetchProfile

SpecFetchProfile == Init /\ [][NextFetchProfile]_vars

\* fetch_profile was called with only an expertName and the people store
\* answered the search without an error
FetchedByName ==
    /\ via = "fetch_profile"
    /\ Truthy(args.query)
    /\ pc = "answered"
    /\ ~StoreFailed

\* the people store had a match for the name
NameMatched == tool = "get_expert_profile" \/ Len(rowsOf(storeReply)) > 0

\* C21 as stated: fetch_profile with only an expertName returns the profile
\* of the best match when the people store has one, and a not-found message
\* that is not an error when it has none; with neither expertId nor
\* expertName it returns an error.
C21_FetchProfileByName ==
    /\ FetchedByName =>
          /\ rpcResponses[1].kind = "result"
          /\ ~rpcResponses[1].result.isError
          /\ IF NameMatched
             THEN Len(rpcResponses[1].result.records) = 1
             ELSE rpcResponses[1].result.text = <<"Expert ", "not found.">>
    /\ (pc = "answered" /\ via = "fetch_profile" /\ tool = "none") =>
          rpcResponses[1].kind = "error"

(***************************************************************************)
(* The keyword revision's topic normalisation on its own                   *)
(***************************************************************************)
MaxShortTopicWords == 2

TopicPads == {<<>>, <<" ">>}

\* topics of at most TopicThreshold characters, with and without
\* surrounding whitespace
ShortTopics ==
    {t \in {l \o join(ws, <<" ">>) \o r :
                ws \in WordLists(TopicVocabulary, MaxShortTopicWords),
                l \in TopicPads, r \in TopicPads} :
        Len(t) > 0 /\ Len(t) <= TopicThreshold}

\* every variable but the ones a function run on its own uses
InitServices ==
    /\ InitRequest
    /\ fbInput = NoFallbackInput
    /\ fbOutput = <<>>
    /\ InitSynthesis
    /\ slackReply = "none"
    /\ InitConcurrent
    /\ InitRpc
    /\ InitInterview

InitNormalize ==
    /\ InitServices
    /\ scInput = <<>>
    /\ scOutput = <<>>
    /\ fnInput \in {<<t>> : t \in ShortTopics \cup Topics}
    /\ fnOutput = <<>>

\* the two locals of the block `if (params.questionTopic) { ... }`
normalize(questionTopic) ==
    [searchTerms |-> extractKeyTerms(questionTopic),
     sanitizedTopic |-> keywordFilterTopic(questionTopic)]

\* the normalisation is applied to the topic, then to its own result
RunNormalize ==
    /\ Len(fnOutput) < 2
    /\ fnOutput' = Append(fnOutput,
                          normalize(IF fnOutput = <<>> THEN fnInput[1]
                                    ELSE fnOutput[1].sanitizedTopic))
    /\ UNCHANGED <<requestVars, fbInput, fbOutput, scInput, scOutput, synthesisVars,
                   notifyVars, concurrentVars, rpcVars, fnInput, interviewVars>>

NextNormalize == RunNormalize

SpecNormalize == InitNormalize /\ [][NextNormalize]_vars

\* the topic holds none of the characters the sanitisation replaces
IsSanitized(x) == \A i \in 1..Len(x) : x[i] \notin SanitizedChars

\* y is x without its leading and trailing whitespace
EqualUpToSurroundingWhitespace(x, y) ==
    \E i \in 1..Len(x) + 1 : \E j \in 0..Len(x) :
        /\ y = SubSeq(x, i, j)
        /\ \A k \in 1..Len(x) : (k < i \/ k > j) => x[k] \in Whitespace
        /\ Len(y) > 0 => y[1] \notin Whitespace /\ y[Len(y)] \notin Whitespace

\* C22: on topics of at most 50 characters the keyword-reduction
\* normalisation is idempotent, normalize(normalize(x)) = normalize(x), and
\* for an already sanitized x, normalize(x) equals x up to surrounding
\* whitespace.
C22_NormalizeIdempotent ==
    (fnInput # <<>> /\ Len(fnInput[1]) <= TopicThreshold) =>
        /\ Len(fnOutput) = 2 => fnOutput[2].sanitizedTopic = fnOutput[1].sanitizedTopic
        /\ (Len(fnOutput) >= 1 /\ IsSanitized(fnInput[1])) =>
              EqualUpToSurroundingWhitespace(fnInput[1], fnOutput[1].sanitizedTopic)

\* a short topic with a quote and surrounding blanks was normalised twice
C22_Witness ==
    /\ fnInput = << <<" ">> \o <<"i","t","'","s"," ","v","e","n","d","o","r">> \o <<" ">> >>
    /\ Len(fnOutput) = 2
    /\ fnOutput[1].sanitizedTopic = <<"i","t"," ","s"," ","v","e","n","d","o","r">>
    /\ fnOutput[2].sanitizedTopic = <<"i","t"," ","s"," ","v","e","n","d","o","r">>

\* the words of the lower-cased topic without its parenthesised text
wordsOf(topic) ==
    split(toLowerCase(stripParentheticals(topic)), Whitespace \cup {",", ";", ".", "!", "?"})

\* positions of the words longer than 3 characters that are no stop-word
Meaningful(words) ==
    {i \in 1..Len(words) :
        Len(words[i]) > 3 /\ \A f \in 1..Len(fillerWords) : fillerWords[f] # words[i]}

QualityHandlers == {"summarize_interviews", "get_full_interview"}

\* interviews.filter(i => i.<field>): a null score and a score of 0 are
\* both falsy
truthyScores(interviews, field) ==
    LET truthy == SelectSeq(interviews,
                            LAMBDA i : i[field] # <<>> /\ i[field][1] # 0)
    IN  [k \in 1..Len(truthy) |-> truthy[k][field][1]]

\* filter(...).reduce((sum, i) => sum + i.<field>!, 0) / filter(...).length || 0
\* (0 / 0 is NaN, and NaN || 0 is 0; so is 0 || 0)
truthyAverage(interviews, field) ==
    LET scores == truthyScores(interviews, field)
    IN  IF Len(scores) = 0 \/ reduceSum(scores) = 0
        THEN Quotient(0, 1)
        ELSE Quotient(reduceSum(scores), Len(scores))

\* quality_metrics of summarize_interviews, overall_quality of
\* get_full_interview: the same three expressions
qualityMetrics(interviews) ==
    [avg_consensus_score |-> truthyAverage(interviews, "consensus_score"),
     avg_credibility_score |-> truthyAverage(interviews, "credibility_score"),
     avg_completion_score |-> truthyAverage(interviews, "completion_score")]

InitQuality ==
    /\ InitServices
    /\ scInput \in {l \in InsightRecordLists : Len(l) <= 2}
    /\ scOutput = <<>>
    /\ InitPure

\* one of the two handlers aggregates the records
RunQualityMetrics ==
    /\ fnOutput = <<>>
    /\ \E handler \in QualityHandlers :
          /\ fnInput' = <<handler>>
          /\ fnOutput' = <<qualityMetrics(scInput)>>
    /\ UNCHANGED <<requestVars, fbInput, fbOutput, scInput, scOutput, synthesisVars,
                   notifyVars, concurrentVars, rpcVars, interviewVars>>

NextQuality == RunInsights \/ RunQualityMetrics

SpecQuality == InitQuality /\ [][NextQuality]_vars

SameNumber(p, q) == p.num * q.den = q.num * p.den

\* C29: on the same records the averages of summarize_interviews and of
\* get_full_interview equal the averages of getInterviewInsights for
\* credibility, consensus and completion, also when some scores are null
\* and when some scores are 0.
C29_HandlersAverageLikeInsights ==
    (scOutput # <<>> /\ fnOutput # <<>>) =>
        /\ SameNumber(fnOutput[1].avg_credibility_score,
                      scOutput[1].averageCredibilityScore)
        /\ SameNumber(fnOutput[1].avg_consensus_score,
                      scOutput[1].averageConsensusScore)
        /\ SameNumber(fnOutput[1].avg_completion_score,
                      scOutput[1].averageCompletionScore)

(***************************************************************************)
(* Properties of the fallback's rules                                      *)
(***************************************************************************)
fbQueryLower == toLowerCase(fbInput.query)

fbCompanies == fbOutput[1][1].companies.v

fbRoleKeywords == fbOutput[1][1].role_keywords.v

\* the name variants of the firms of a rule's table that the query names as
\* words
NamedVariants(firms) ==
    UNION {Range(firms[i].names) :
             i \in {j \in 1..Len(firms) : matchesWord(fbQueryLower, firms[j].keys)}}

\* the query names one of the six consulting firms as a word
NamesConsultingFirm ==
    matchesWord(fbQueryLower,
                << <<"m","c","k","i","n","s","e","y">>, <<"b","a","i","n">>, <<"b","c","g">>, <<"d","e","l","o","i","t","t","e">>, <<"p","w","c">>, <<"a","c","c","e","n","t","u","r","e">> >>)

FixedConsultingRoles ==
    << <<"P","a","r","t","n","e","r">>, <<"P","r","i","n","c","i","p","a","l">>, <<"D","i","r","e","c","t","o","r">>, <<"V","P">>, <<"M","a","n","a","g","e","r">>, <<"C","o","n","s","u","l","t","a","n","t">> >>

\* C23: in the consulting rule a query that names one or more of mckinsey,
\* bain, bcg, deloitte, pwc, accenture yields the union of the name
\* variants of exactly the firms it names, and a query that contains the
\* word "consulting" but names none of them yields the default set McKinsey,
\* Bain, BCG, Deloitte, PwC; in both cases the role keywords are Partner,
\* Principal, Director, VP, Manager, Consultant.
C23_ConsultingRule ==
    (fbOutput # <<>> /\ ~MentionsBigFive(fbInput.query)) =>
        /\ NamesConsultingFirm =>
              /\ Range(fbCompanies) = NamedVariants(ConsultingFirms)
              /\ fbRoleKeywords = FixedConsultingRoles
        /\ (~NamesConsultingFirm /\ includes(fbQueryLower, <<"c","o","n","s","u","l","t","i","n","g">>)) =>
              /\ fbCompanies = << <<"M","c","K","i","n","s","e","y">>, <<"B","a","i","n">>, <<"B","C","G">>, <<"D","e","l","o","i","t","t","e">>, <<"P","w","C">> >>
              /\ fbRoleKeywords = FixedConsultingRoles

\* the name variants of the resellers the query names: cdw and shi as
\* words, insight enterprises as a phrase
NamedResellers ==
    (IF matchesWord(fbQueryLower, << <<"c","d","w">> >>) THEN {<<"C","D","W">>} ELSE {})
    \cup (IF matchesWord(fbQueryLower, << <<"s","h","i">> >>) THEN {<<"S","H","I">>, <<"S","H","I"," ","I","n","t","e","r","n","a","t","i","o","n","a","l">>} ELSE {})
    \cup (IF includes(fbQueryLower, <<"i","n","s","i","g","h","t"," ","e","n","t","e","r","p","r","i","s","e","s">>) THEN {<<"I","n","s","i","g","h","t">>, <<"I","n","s","i","g","h","t"," ","E","n","t","e","r","p","r","i","s","e","s">>} ELSE {})

\* C24: in the IT-reseller rule the companies returned are the name variants
\* of exactly the resellers named as words in the query (cdw gives CDW; shi
\* gives SHI and SHI International; insight enterprises gives Insight and
\* Insight Enterprises): a reseller the query does not name is never added.
C24_ResellerRule ==
    (fbOutput # <<>> /\ fallbackRule(fbQueryLower) = "reseller") =>
        Range(fbCompanies) \ Range(explicitFilter(fbInput.currentCompany)) = NamedResellers

\* the token is one of the stop-words, whatever its case
IsStopWord(word) == listIncludes(fillerWords, toLowerCase(cleanedOf(word)))

\* C25: in the default rule the companies are exactly the explicit company
\* (if any) followed by the capitalized tokens that are neither stop-words
\* nor common role words, and the role keywords are exactly the explicit
\* title (if any) followed by the tokens of the fixed role-word list (the
\* broad seniority list when nothing at all is extracted); a stop-word such
\* as "Find" is never emitted as a company.
C25_DefaultRuleDiscardsStopWords ==
    (fbOutput # <<>> /\ fallbackRule(fbQueryLower) = "default") =>
        LET tokens == queryTokens(fbInput.query)
            candidates == SelectSeq(tokens,
                              LAMBDA w : isCompanyWord(w) /\ ~IsStopWord(w))
            companies == explicitFilter(fbInput.currentCompany)
                             \o [i \in 1..Len(candidates) |-> cleanedOf(candidates[i])]
            roles == explicitFilter(fbInput.currentTitle) \o SelectSeq(tokens, isRoleWord)
        IN  /\ fbCompanies = companies
            /\ fbRoleKeywords = IF Len(companies) = 0 /\ Len(roles) = 0
                                THEN BroadRoles ELSE roles
            /\ \A i \in 1..Len(fbCompanies) : fbCompanies[i] # <<"F","i","n","d">>

\* the rules in their fixed order
RuleOrder == <<"big5", "consulting", "reseller", "fintech", "bigtech">>

\* the condition under which a rule applies to the query
RuleMatches(rule) ==
    CASE rule = "big5" -> MentionsBigFive(fbInput.query)
      [] rule = "consulting" -> NamesConsultingFirm
      [] rule = "reseller" ->
            matchesWord(fbQueryLower, ResellerPattern) \/ includes(fbQueryLower, ResellerPhrase)
      [] rule = "fintech" ->
            matchesWord(fbQueryLower, FintechPattern) \/ includes(fbQueryLower, FintechWord)
      [] rule = "bigtech" -> matchesWord(fbQueryLower, BigTechPattern)

\* the first rule of the order that matches, the default rule when none does
FirstMatching ==
    LET matching == {i \in 1..Len(RuleOrder) : RuleMatches(RuleOrder[i])}
    IN  IF matching = {} THEN "default"
        ELSE RuleOrder[CHOOSE i \in matching : \A j \in matching : i <= j]

AllNames(firms) == UNION {Range(firms[i].names) : i \in 1..Len(firms)}

\* the companies and the role keywords a rule can contribute
RuleCompanies(rule) ==
    CASE rule = "big5" -> Range(Big5Companies)
      [] rule = "consulting" -> AllNames(ConsultingFirms) \cup Range(ConsultingDefault)
      [] rule = "reseller" -> AllNames(ResellerFirms)
      [] rule = "fintech" -> AllNames(FintechFirms)
      [] rule = "bigtech" -> AllNames(BigTechFirms)

RuleRoles(rule) ==
    CASE rule = "big5" -> Big5Roles
      [] rule = "consulting" -> ConsultingRoles
      [] rule = "reseller" -> ResellerRoles
      [] rule = "fintech" -> FintechRoles
      [] rule = "bigtech" -> BigTechRoles

explicitCompany == Range(explicitFilter(fbInput.currentCompany))

explicitTitle == Range(explicitFilter(fbInput.currentTitle))

McKinseyGoogle == <<"M","c","K","i","n","s","e","y"," ","G","o","o","g","l","e">>

\* C27: the fallback applies exactly one rule per query, the first that
\* matches in the order Big 5 / executive search, consulting firms, IT
\* resellers, fintech, big tech, default: every company comes from that
\* rule (or is the explicit company), the role keywords are that rule's,
\* and a query naming both McKinsey and Google yields no Google company.
C27_FirstMatchingRuleOnly ==
    fbOutput # <<>> =>
        \A first \in {FirstMatching} :
            /\ first # "default" =>
                  /\ Range(fbCompanies) \subseteq RuleCompanies(first) \cup explicitCompany
                  /\ fbRoleKeywords = RuleRoles(first)
            /\ first = "default" =>
                  LET tokens == {cleanedOf(w) : w \in Range(queryTokens(fbInput.query))}
                  IN  /\ Range(fbCompanies) \subseteq tokens \cup explicitCompany
                      /\ \/ fbRoleKeywords = BroadRoles
                         \/ Range(fbRoleKeywords) \subseteq
                                Range(queryTokens(fbInput.query)) \cup explicitTitle
            /\ fbInput.query = McKinseyGoogle =>
                  \A i \in 1..Len(fbCompanies) :
                      fbCompanies[i] \notin {<<"G","o","o","g","l","e">>, <<"A","l","p","h","a","b","e","t">>}

\* the fallback ran on a query naming McKinsey and Google and answered with
\* the consulting rule alone
C27_Witness ==
    /\ fbOutput # <<>>
    /\ fbInput.query = McKinseyGoogle
    /\ FirstMatching = "consulting"
    /\ RuleMatches("bigtech")
    /\ fbCompanies = << <<"M","c","K","i","n","s","e","y">>, <<"M","c","K","i","n","s","e","y"," ","&"," ","C","o","m","p","a","n","y">> >>

\* C28: with explicit filters the explicit company is the first element of
\* companies in the IT-reseller, fintech, big-tech and default rules and is
\* discarded in the Big 5 and consulting rules; the explicit title is the
\* first role keyword in the default rule and is discarded in every
\* named-pattern rule.
C28_ExplicitFiltersKeptPerRule ==
    fbOutput # <<>> =>
        LET rule == fallbackRule(fbQueryLower)
        IN  /\ Truthy(fbInput.currentCompany) =>
                  IF rule \in {"big5", "consulting"}
                  THEN fbInput.currentCompany[1] \notin Range(fbCompanies)
                  ELSE /\ Len(fbCompanies) > 0
                       /\ fbCompanies[1] = fbInput.currentCompany[1]
            /\ Truthy(fbInput.currentTitle) =>
                  IF rule = "default"
                  THEN /\ Len(fbRoleKeywords) > 0
                       /\ fbRoleKeywords[1] = fbInput.currentTitle[1]
                  ELSE fbInput.currentTitle[1] \notin Range(fbRoleKeywords)

\* the fintech rule ran with an explicit company and title: the company
\* leads the list, the title is gone
C28_Witness ==
    /\ fbOutput # <<>>
    /\ fallbackRule(fbQueryLower) = "fintech"
    /\ fbInput.currentCompany = <<Acme>>
    /\ fbInput.currentTitle = <<Analyst>>
    /\ fbCompanies = <<Acme>>
    /\ Analyst \notin Range(fbRoleKeywords)

(***************************************************************************)
(* request_expert_interview of POST /mcp: one profile lookup per id, then  *)
(* the Slack notification                                                  *)
(*                                                                         *)
(* notifyExpertInterviewRequest is taken to post what it is handed through *)
(* sendNotification, like the other notify methods of SlackService.        *)
(***************************************************************************)
ExpertIds == {"e-1", "e-2"}

ExpertIdLists == UNION {[1..n -> ExpertIds] : n \in 0..MaxExpertIds}

PendingLookup == [settled |-> FALSE]

\* `JSON.parse(expertResult.content[0].text)` in its try / catch, then
\* `.profile`: the profile of the row, or null when the text is not JSON
profileOf(expertResult) ==
    IF expertResult.json /\ Len(expertResult.records) > 0
    THEN [null |-> FALSE, row |-> expertResult.records[1]]
    ELSE [null |-> TRUE]

\* variant of the filter that keeps every entry
validExpertsUnfiltered(details) == details

\* expertDetails.filter(e => e !== null)
validExperts(details) == SelectSeq(details, LAMBDA e : ~e.profile.null)

\* the `experts` handed to notifyExpertInterviewRequest: one entry per valid
\* expert, named by the id it was looked up with
notifiedExperts(details) ==
    LET valid == validExperts(details)
    IN  [k \in 1..Len(valid) |-> valid[k].id]

\* the case up to the start of Promise.all
ReceiveRequestExpertInterview(ids) ==
    /\ pc = "idle"
    /\ via' = "mcp"
    /\ tool' = "request_expert_interview"
    /\ args' = [expertIds |-> ids]
    /\ IF Len(ids) = 0
       THEN /\ finish("mcp", [NoResponse EXCEPT !.thrown = TRUE,
                                  !.text = <<"At least one expert ID is required">>])
            /\ UNCHANGED expertDetails
       ELSE /\ pc' = "await_profiles"
            /\ expertDetails' = [i \in 1..Len(ids) |-> PendingLookup]
            /\ UNCHANGED <<response, httpResponse>>
    /\ UNCHANGED <<anthropicKey, normalizer, aiCalls, fallbackRuns, storeCalls, aiReply,
                   extraction, rpcArgs, filterTopic, queryLimit, storeReply, fbInput,
                   fbOutput, scInput, scOutput, synthesisVars, notifyVars,
                   concurrentVars, rpcVars, pureVars, notification>>

CallRequestExpertInterview ==
    /\ pc = "idle"
    /\ \E ids \in ExpertIdLists : ReceiveRequestExpertInterview(ids)

\* the store answers the lookup of the i-th id and handleExpertTool returns
ProfileLookupReply(i, reply) ==
    /\ pc = "await_profiles"
    /\ i \in 1..Len(expertDetails)
    /\ ~expertDetails[i].settled
    /\ storeCalls' = storeCalls + 1
    /\ expertDetails' =
          [expertDetails EXCEPT ![i] =
              [settled |-> TRUE, id |-> args.expertIds[i], reply |-> reply,
               profile |-> profileOf(getExpertProfileResponse(
                                         getExpertProfileResult(reply)))]]
    /\ UNCHANGED <<pc, via, tool, args, anthropicKey, normalizer, aiCalls, fallbackRuns,
                   aiReply, extraction, rpcArgs, filterTopic, queryLimit, storeReply,
                   response, httpResponse, fbInput, fbOutput, scInput, scOutput,
                   synthesisVars, notifyVars, concurrentVars, rpcVars, pureVars,
                   notification>>

\* Promise.all has resolved: the valid experts are handed to the Slack
\* service
NotifyExpertInterviewRequest ==
    /\ pc = "await_profiles"
    /\ \A i \in 1..Len(expertDetails) : expertDetails[i].settled
    /\ notification' = <<[experts |-> notifiedExperts(expertDetails)]>>
    /\ pc' = "await_slack"
    /\ UNCHANGED <<via, tool, args, anthropicKey, normalizer, aiCalls, fallbackRuns,
                   storeCalls, aiReply, extraction, rpcArgs, filterTopic, queryLimit,
                   storeReply, response, httpResponse, fbInput, fbOutput, scInput,
                   scOutput, synthesisVars, notifyVars, concurrentVars, rpcVars,
                   pureVars, expertDetails>>

\* the request has been answered
ResetInterviewRequest ==
    /\ pc = "done"
    /\ pc' = "idle"
    /\ tool' = "none"
    /\ args' = NoArgs
    /\ response' = NoResponse
    /\ slackReply' = "none"
    /\ storeCalls' = 0
    /\ expertDetails' = <<>>
    /\ notification' = <<>>
    /\ UNCHANGED <<via, anthropicKey, normalizer, aiCalls, fallbackRuns, aiReply,
                   extraction, rpcArgs, filterTopic, queryLimit, storeReply,
                   httpResponse, fbInput, fbOutput, scInput, scOutput, synthesisVars,
                   concurrentVars, rpcVars, pureVars>>

NextInterviewRequest ==
    \/ CallRequestExpertInterview
    \/ \E i \in 1..MaxExpertIds : \E reply \in SingleReplies : ProfileLookupReply(i, reply)
    \/ NotifyExpertInterviewRequest
    \/ \E reply \in SlackReplies : SlackReply(reply)
    \/ ResetInterviewRequest

SpecInterviewRequest == Init /\ [][NextInterviewRequest]_vars

InterviewRequested == tool = "request_expert_interview"

\* the ids whose lookup gave a row, in the order of the request
LookedUp ==
    LET found == SelectSeq(expertDetails,
                           LAMBDA e : e.settled /\ Len(e.reply.error) = 0)
    IN  [k \in 1..Len(found) |-> found[k].id]

====
